---- MODULE Spec2Model ----
(***************************************************************************)
(* Model of the betfair-go market recorder (src/recorder.go) with the      *)
(* stream client handshake (src/stream.go), the payload extractors         *)
(* (src/market.go), the file manager (src/unnamed/part_005), the object    *)
(* store uploader (src/storage.go) and the file loop of the market data    *)
(* processor (src/processor/market_processor.go).                          *)
(*                                                                         *)
(* JSON objects are TLA+ functions from key strings to values: a key that  *)
(* is absent from the JSON text is absent from the DOMAIN.  The            *)
(* specifications share the variables and the read handler:                *)
(*   Spec          the whole Run loop: dial, authenticate, heartbeat       *)
(*                 request, subscribe, read loop, retry, cancellation;     *)
(*   SpecLive      Spec with heartbeats and fair scheduling;               *)
(*   SpecStream    the steady-state read loop on an established            *)
(*                 connection, multi-market frames, I/O failures;          *)
(*   SpecClose     single-market frames and cancellation;                  *)
(*   SpecOrder     frames of one market with reconnects in between;        *)
(*   SpecErr       isRetriableError on error chains;                       *)
(*   SpecHandshake the frames read by Authenticate and Subscribe;          *)
(*   SpecConn      the connections runWithReconnect opens and closes;      *)
(*   SpecProc      ProcessFile and processFilesParallel with their         *)
(*                 workers and channels;                                   *)
(*   SpecEnrich, SpecKey, SpecCleanup, SpecID                              *)
(*                 one call of enrichMarketData, BuildS3Key,               *)
(*                 CleanupFiles and RemoveIDField on bounded inputs.       *)
(***************************************************************************)
EXTENDS Integers, Sequences, FiniteSets, TLC

\* ------------------------------------------------------------------ bounds

\* Frames that one behaviour reads in the read loop of SpecStream.
MaxFrames == 2
\* Entries of the mc array of one frame.
MaxMc == 2
\* I/O failures injected while one frame is processed.
MaxFaults == 1

\* ------------------------------------------------------------- constants

\* recorder.go:58, maxRetries
maxRetries == 5

Markets == {"1.A", "1.B"}

\* JSON null, as json.Marshal writes a nil interface value.
Null == "null"

\* The steps of one market entry that can fail on I/O.
FaultKinds == {"catalogue", "create", "enrich", "write", "compress", "upload"}

FaultSets == {f \in SUBSET FaultKinds : Cardinality(f) <= MaxFaults}

\* --------------------------------------------------------------- variables

VARIABLES
    initialClk,        \* MarketRecorder.initialClk
    clk,               \* MarketRecorder.clk
    marketCatalogues,  \* keys of MarketRecorder.marketCatalogues
    storage,           \* MarketRecorder.storage != nil
    marketStatuses,    \* Run's marketStatuses; "" = no entry
    writers,           \* keys of Run's writers map
    files,             \* keys of Run's files map
    writerErr,         \* writers whose bufio.Writer holds a sticky error
    plainEx,           \* markets whose file <root>/M exists
    plainLines,        \* the lines of <root>/M
    bz2Ex,             \* markets whose file <root>/M.bz2 exists
    bz2Lines,          \* the lines a decompression of <root>/M.bz2 gives
    s3,                \* markets whose archive was put in the object store
    handles,           \* open file handles on <root>/M, per market
    pc,                \* position of Run / runWithReconnect
    attempt,           \* runWithReconnect's attempt
    ctxDone,           \* ctx.Done() is closed
    lastErr,           \* runWithReconnect's lastErr
    rwrResult,         \* the error runWithReconnect last returned to Run
    runResult,         \* the error Run returned, "" while it runs
    sessionToken,      \* StreamClient.sessionToken
    configSessionToken,\* Config.SessionToken
    restSessionKey,    \* the session key of the REST client
    authSession,       \* session of the last authentication message sent
    subscription,      \* the marketSubscription message awaiting its ack
    sent,              \* ops of the messages written on the connection
    nread,             \* frames read by the handshake loop that is running
    fnIn,              \* the input of the pure function under check
    fnOut,             \* what the function returned
    FileLimit,         \* MarketDataProcessor.FileLimit
    Workers,           \* MarketDataProcessor.Workers
    FilesProcessed,    \* MarketDataProcessor.FilesProcessed
    filesCh,           \* processFilesParallel's filesCh: the paths it holds
    errorsCh,          \* processFilesParallel's errorsCh: the values it holds
    worker,            \* position and locals of each worker goroutine
    caller,            \* position and locals of the processor's caller
    received,          \* history: the paths the workers took from filesCh
    conns,             \* the connections Dial returned: open, messages sent
    deferred,          \* runWithReconnect's deferred stream.Close calls
    \* history variables
    nframes,           \* frames read so far in SpecStream and SpecClose
    firstInitialSeen,  \* the first non-empty initialClk a read frame carried
    lastInitialSeen,   \* the last non-empty initialClk a read frame carried
    lastClkSeen,       \* the last non-empty clk a read frame carried
    lastFrame,         \* op, ct, clk and the mc ids of the last frame read
    ack,               \* the last frame a handshake loop read
    consecFails,       \* establishConnection failures since the last success
    settleCount,       \* executions of handleMarketSettlement per market
    edgeCount,         \* observed non-CLOSED -> CLOSED edges per market
    entryLog,          \* what the last frame's mc entries with an id did
    txns               \* the settlement transactions of the last frame

recVars == <<marketCatalogues, marketStatuses, writers, files, writerErr,
             plainEx, plainLines, bz2Ex, bz2Lines, s3, settleCount,
             edgeCount, entryLog, txns>>
clockVars == <<initialClk, clk, firstInitialSeen, lastInitialSeen, lastClkSeen,
               lastFrame>>
tokenVars == <<sessionToken, configSessionToken, restSessionKey, authSession>>
hsVars == <<sent, nread, ack>>
fnVars == <<fnIn, fnOut>>
connVars == <<conns, deferred>>
procVars == <<FileLimit, Workers, FilesProcessed, filesCh, errorsCh, worker,
              caller, received>>
ctlVars == <<pc, attempt, ctxDone, lastErr, rwrResult, runResult, tokenVars,
             subscription>>
vars == <<initialClk, clk, marketCatalogues, storage, marketStatuses, writers,
          files, writerErr, plainEx, plainLines, bz2Ex, bz2Lines, s3, handles, pc,
          attempt, ctxDone, lastErr, rwrResult, runResult, sessionToken,
          configSessionToken, restSessionKey, authSession,
          subscription, nframes, firstInitialSeen, lastInitialSeen,
          lastClkSeen, lastFrame, consecFails, settleCount, edgeCount,
          entryLog, txns, hsVars, fnVars, procVars, connVars>>

\* ------------------------------------------------------------ JSON helpers

Has(o, k) == k \in DOMAIN o

\* A string field decoded into a Go struct: "" when the key is absent.
Str(o, k) == IF Has(o, k) THEN o[k] ELSE ""

\* data[k] of a map[string]interface{}: nil when the key is absent.
Get(o, k) == IF Has(o, k) THEN o[k] ELSE Null

SeqsUpTo(S, n) == UNION {[1..k -> S] : k \in 0..n}

\* Adds or overwrites key k of a JSON object.
SetKey(o, k, v) == [x \in DOMAIN o \cup {k} |-> IF x = k THEN v ELSE o[x]]

EmptyObject == [x \in {} |-> x]

\* ------------------------------------------------------- payload extractors

ExtractOp(raw) == Str(raw, "op")

ExtractChangeType(raw) == Str(raw, "ct")

\* <<initialClk, clk>> of a payload.
ExtractAndStoreClock(raw) == <<Str(raw, "initialClk"), Str(raw, "clk")>>

IsMarketSettled(status) == status = "CLOSED"

\* The bytes of a payload are the JSON value they spell and their layout
\* (key order and white space).  json.Marshal writes the compact layout with
\* sorted keys, whatever the layout of the text that was parsed.
Marshal(data) == [layout |-> "compact", data |-> data]

Unmarshal(payload) == payload.data

\* MutRemoveIDField deletes the id of every mc entry too.
MutRemoveIDField(raw) ==
    LET msg == Unmarshal(raw)
        top == [k \in DOMAIN msg \ {"id"} |-> msg[k]]
    IN  Marshal(IF Has(top, "mc")
                THEN [top EXCEPT !.mc =
                          [i \in 1..Len(@) |->
                              [k \in DOMAIN @[i] \ {"id"} |-> @[i][k]]]]
                ELSE top)

\* market.go:120-128: json.Unmarshal, delete(msg, "id"), json.Marshal.
RemoveIDField(raw) ==
    LET msg == Unmarshal(raw)
    IN  Marshal([k \in DOMAIN msg \ {"id"} |-> msg[k]])

\* ok is FALSE where the code returns "no event information found".
ExtractEventInfo(raw) ==
    LET mc  == IF Has(raw, "mc") THEN raw.mc ELSE <<>>
        def == IF Len(mc) > 0 /\ Has(mc[1], "marketDefinition")
               THEN mc[1].marketDefinition ELSE EmptyObject
    IN  [ok |-> Str(def, "eventId") # "", eventId |-> Str(def, "eventId")]

\* -------------------------------------------------- readMessage, per entry

\* recorder.go:188-190; MutStoreInitialClk keeps the first value.
MutStoreInitialClk(old, new) == IF old = "" THEN new ELSE old

StoreInitialClk(old, new) == IF new # "" THEN new ELSE old

\* recorder.go:191-193; MutStoreClk lets an empty clk clear the checkpoint.
MutStoreClk(old, new) == new

StoreClk(old, new) == IF new # "" THEN new ELSE old

\* The maps and files readMessage works on, as one record.
RecState ==
    [cache |-> marketCatalogues, statuses |-> marketStatuses,
     writers |-> writers, files |-> files, werr |-> writerErr,
     plainEx |-> plainEx, plainLines |-> plainLines,
     bz2Ex |-> bz2Ex, bz2Lines |-> bz2Lines, s3 |-> s3, handles |-> handles,
     settleCount |-> settleCount, edgeCount |-> edgeCount, log |-> <<>>,
     txns |-> <<>>, listCalls |-> 0]

\* The catalogue entry listMarketCatalogue returns for a market.
CatalogueName == "Win"

\* MutFetchMarketCatalogue asks for the catalogue whatever the cache holds.
MutFetchMarketCatalogue(st, marketID, flt) ==
    IF "catalogue" \in flt THEN [st EXCEPT !.listCalls = @ + 1]
    ELSE [st EXCEPT !.cache = @ \cup {marketID}, !.listCalls = @ + 1]

\* recorder.go:421-458: listCalls counts the ListMarketCatalogue calls made
\* while the frame is processed; a call that fails or returns no catalogue
\* caches nothing.
fetchMarketCatalogue(st, marketID, flt) ==
    IF marketID \in st.cache THEN st
    ELSE IF "catalogue" \in flt THEN [st EXCEPT !.listCalls = @ + 1]
    ELSE [st EXCEPT !.cache = @ \cup {marketID}, !.listCalls = @ + 1]

\* MutCreateMarketWriter opens the file to append to it.
MutCreateMarketWriter(st, marketID) ==
    [st EXCEPT !.plainEx = @ \cup {marketID},
               !.handles[marketID] = @ + 1]

\* os.Create truncates an existing file and returns a new handle; the new
\* writer has no error.
CreateMarketWriter(st, marketID) ==
    [st EXCEPT !.plainEx = @ \cup {marketID},
               !.plainLines[marketID] = <<>>,
               !.handles[marketID] = @ + 1]

createWriterForMarket(st, marketID, flt) ==
    IF "create" \in flt THEN st
    ELSE [CreateMarketWriter(st, marketID) EXCEPT
              !.writers = @ \cup {marketID},
              !.files = @ \cup {marketID},
              !.werr = @ \ {marketID}]

\* MutSingleMarketData keeps the frame's whole mc array and its other keys.
MutSingleMarketData(data, marketChange) == data

SingleMarketData(data, marketChange) ==
    [op |-> Get(data, "op"), pt |-> Get(data, "pt"),
     clk |-> Get(data, "clk"), mc |-> <<marketChange>>]

\* recorder.go:509-512: the catalogue's runners by selection id; of two
\* runners with one id the later one stays.
RunnerMap(runners) ==
    [id \in {runners[i].selectionId : i \in 1..Len(runners)} |->
        runners[CHOOSE i \in 1..Len(runners) :
                    /\ runners[i].selectionId = id
                    /\ \A j \in (i + 1)..Len(runners) :
                           runners[j].selectionId # id]]

\* MutEnrichRunner always sets adjustmentFactor to 0.
MutEnrichRunner(runnerMap, runner) ==
    IF ~Has(runner, "id") THEN runner
    ELSE IF runner.id \notin DOMAIN runnerMap THEN runner
    ELSE LET c  == runnerMap[runner.id]
             r1 == SetKey(runner, "adjustmentFactor", 0)
             r2 == SetKey(r1, "name", c.runnerName)
             r3 == IF c.handicap # 0 THEN SetKey(r2, "handicap", c.handicap)
                   ELSE r2
         IN  SetKey(r3, "sortPriority", c.sortPriority)

\* recorder.go:515-546, one runner of marketDefinition.runners.  The ids of
\* the runners are JSON integers, for which int64(id) is the id.
EnrichRunner(runnerMap, runner) ==
    IF ~Has(runner, "id") THEN runner
    ELSE IF runner.id \notin DOMAIN runnerMap THEN runner
    ELSE LET c  == runnerMap[runner.id]
             r1 == IF ~Has(runner, "adjustmentFactor")
                   THEN SetKey(runner, "adjustmentFactor", 0) ELSE runner
             r2 == SetKey(r1, "name", c.runnerName)
             r3 == IF c.handicap # 0 THEN SetKey(r2, "handicap", c.handicap)
                   ELSE r2
         IN  SetKey(r3, "sortPriority", c.sortPriority)

\* recorder.go:490-548: the market definition with the catalogue's data.  A
\* nil Event, EventType or Competition is a key the catalogue does not have.
EnrichDefinition(catalogue, marketDef) ==
    LET d1 == SetKey(marketDef, "marketName", catalogue.marketName)
        d2 == IF Has(catalogue, "event")
              THEN SetKey(d1, "eventName", catalogue.event.name) ELSE d1
        d3 == IF Has(catalogue, "event") /\ catalogue.event.venue # ""
              THEN SetKey(d2, "venue", catalogue.event.venue) ELSE d2
        d4 == IF Has(catalogue, "eventType")
              THEN SetKey(d3, "eventTypeName", catalogue.eventType.name)
              ELSE d3
        d5 == IF Has(catalogue, "competition")
              THEN SetKey(d4, "competitionName", catalogue.competition.name)
              ELSE d4
    IN  IF Has(d5, "runners") /\ Len(d5.runners) > 0
        THEN SetKey(d5, "runners",
                    [i \in 1..Len(d5.runners) |->
                        EnrichRunner(RunnerMap(catalogue.runners),
                                     d5.runners[i])])
        ELSE d5

\* MutEnrichMarketData marshals what it parsed on every path behind the
\* cache lookup.
MutEnrichMarketData(catalogues, marketID, payload) ==
    IF marketID \notin DOMAIN catalogues THEN payload
    ELSE LET data == Unmarshal(payload) IN
         IF ~Has(data, "mc") THEN Marshal(data)
         ELSE IF Len(data.mc) = 0 THEN Marshal(data)
         ELSE IF ~Has(data.mc[1], "marketDefinition") THEN Marshal(data)
         ELSE Marshal([data EXCEPT !.mc[1].marketDefinition =
                          EnrichDefinition(catalogues[marketID], @)])

\* recorder.go:460-557 for a payload that parses; catalogues is
\* r.marketCatalogues.
enrichMarketData(catalogues, marketID, payload) ==
    IF marketID \notin DOMAIN catalogues THEN payload
    ELSE LET data == Unmarshal(payload) IN
         IF ~Has(data, "mc") THEN payload
         ELSE IF Len(data.mc) = 0 THEN payload
         ELSE IF ~Has(data.mc[1], "marketDefinition") THEN payload
         ELSE Marshal([data EXCEPT !.mc[1].marketDefinition =
                          EnrichDefinition(catalogues[marketID], @)])

\* The catalogue fetchMarketCatalogue caches for a market in SpecStream.
StreamCatalogue == [marketName |-> CatalogueName, runners |-> <<>>]

\* MutEnrichOrFallback writes an empty object when the enrichment fails.
MutEnrichOrFallback(cache, marketID, filtered, flt) ==
    IF "enrich" \in flt THEN EmptyObject
    ELSE Unmarshal(enrichMarketData([m \in cache |-> StreamCatalogue],
                                    marketID, filtered))

\* recorder.go:277-283: the filtered payload is used when enrichMarketData
\* returns an error.  A line of a file is kept as the value its bytes spell.
EnrichOrFallback(cache, marketID, filtered, flt) ==
    IF "enrich" \in flt THEN Unmarshal(filtered)
    ELSE Unmarshal(enrichMarketData([m \in cache |-> StreamCatalogue],
                                    marketID, filtered))

\* MutWriteLineFront puts the line before the lines the file holds.
MutWriteLineFront(st, marketID, line) ==
    [st EXCEPT !.plainLines[marketID] = <<line>> \o @]

\* MutWriteLine writes the line twice.
MutWriteLine(st, marketID, line) ==
    [st EXCEPT !.plainLines[marketID] = Append(Append(@, line), line)]

\* writer.Write and writer.Flush both succeeded: the line is in the file.
WriteLine(st, marketID, line) ==
    [st EXCEPT !.plainLines[marketID] = Append(@, line)]

\* A failed copy leaves a created, incomplete archive behind.
CompressToBzip2(st, marketID, flt) ==
    IF marketID \notin st.plainEx THEN st
    ELSE IF "compress" \in flt
         THEN [st EXCEPT !.bz2Ex = @ \cup {marketID},
                         !.bz2Lines[marketID] = <<>>]
         ELSE [st EXCEPT !.bz2Ex = @ \cup {marketID},
                         !.bz2Lines[marketID] = st.plainLines[marketID]]

CompressOK(st, marketID, flt) ==
    marketID \in st.plainEx /\ "compress" \notin flt

Upload(st, marketID) == [st EXCEPT !.s3 = @ \cup {marketID}]

\* MutCleanupFiles removes the plain file only.
MutCleanupFiles(st, marketID) ==
    [st EXCEPT !.plainEx = @ \ {marketID}, !.plainLines[marketID] = <<>>]

\* os.Remove of <root>/M and <root>/M.bz2, errors ignored.
CleanupFiles(st, marketID) ==
    [st EXCEPT !.plainEx = @ \ {marketID}, !.plainLines[marketID] = <<>>,
               !.bz2Ex = @ \ {marketID}, !.bz2Lines[marketID] = <<>>]

\* wrote and line are what the caller appended for this entry before the
\* call; they go into the transaction's history record only.
handleMarketSettlement(st, marketID, payload, flt, wrote, line) ==
    LET s1      == [st EXCEPT !.writers = @ \ {marketID}]
        ev      == ExtractEventInfo(payload)
        compOK  == ev.ok /\ CompressOK(s1, marketID, flt)
        s2      == IF ev.ok THEN CompressToBzip2(s1, marketID, flt) ELSE s1
        upTried == compOK /\ storage
        upOK    == upTried /\ "upload" \notin flt
        s3_     == IF upOK THEN CleanupFiles(Upload(s2, marketID), marketID)
                   ELSE s2
        txn     == [m |-> marketID, wrote |-> wrote, line |-> line,
                    step1Writer |-> marketID \in s1.writers,
                    step1File |-> marketID \in s1.files,
                    step1Handles |-> s1.handles[marketID],
                    evOK |-> ev.ok, compOK |-> compOK,
                    archive |-> s2.bz2Lines[marketID],
                    upTried |-> upTried, upOK |-> upOK,
                    plainBefore |-> marketID \in st.plainEx,
                    bz2Before |-> marketID \in st.bz2Ex,
                    plainAfter |-> marketID \in s3_.plainEx,
                    bz2After |-> marketID \in s3_.bz2Ex,
                    cachedBefore |-> marketID \in st.cache,
                    cached |-> marketID \in s3_.cache]
    IN  [s3_ EXCEPT !.settleCount[marketID] = @ + 1,
                    !.txns = Append(@, txn)]

\* MutEvictCatalogue evicts only when the transaction reached the upload.
MutEvictCatalogue(st, marketID) ==
    IF st.txns[Len(st.txns)].upOK
    THEN [st EXCEPT !.cache = @ \ {marketID},
                    !.txns[Len(st.txns)].cached = FALSE]
    ELSE st

\* recorder.go:313, delete(r.marketCatalogues, marketID); the transaction's
\* history record notes the cache as it is after the delete.
EvictCatalogue(st, marketID) ==
    [st EXCEPT !.cache = @ \ {marketID},
               !.txns[Len(st.txns)].cached = marketID \in (st.cache \ {marketID})]

\* MutRunsSettlement settles on every edge.
MutRunsSettlement(writeFails, marketJustSettled) == marketJustSettled

\* recorder.go:255-296: the settlement branch is reached on an edge unless a
\* continue of the write path has ended the iteration.
RunsSettlement(writeFails, marketJustSettled) ==
    ~writeFails /\ marketJustSettled

\* MutNewStatus sees the status CLOSED only.
MutNewStatus(marketChange) ==
    IF Has(marketChange, "marketDefinition")
       /\ Str(marketChange.marketDefinition, "status") = "CLOSED"
    THEN "CLOSED"
    ELSE ""

\* recorder.go:232-237: the status of the entry's marketDefinition, "" when
\* it has none.
NewStatus(marketChange) ==
    IF Has(marketChange, "marketDefinition")
    THEN Str(marketChange.marketDefinition, "status")
    ELSE ""

\* One iteration of the loop over mc (recorder.go:214-316).
ProcessEntry(st, data, marketChange, flt) ==
    LET marketID == Str(marketChange, "id") IN
    IF marketID = "" THEN st
    ELSE
    LET s1 == fetchMarketCatalogue(st, marketID, flt)
        newStatus == NewStatus(marketChange)
        oldStatus == IF newStatus # "" THEN s1.statuses[marketID] ELSE ""
        marketJustSettled ==
            /\ newStatus # ""
            /\ ~IsMarketSettled(oldStatus)
            /\ IsMarketSettled(newStatus)
        s2 == IF newStatus # ""
              THEN [s1 EXCEPT !.statuses[marketID] = newStatus,
                              !.edgeCount[marketID] =
                                  IF marketJustSettled THEN @ + 1 ELSE @]
              ELSE s1
        s3_ == IF marketID \notin s2.writers
               THEN createWriterForMarket(s2, marketID, flt)
               ELSE s2
        hasWriter == marketID \in s3_.writers
        single == SingleMarketData(data, marketChange)
        filtered == RemoveIDField(Marshal(single))
        line == EnrichOrFallback(s3_.cache, marketID, filtered, flt)
        writeFails == hasWriter /\ (marketID \in s3_.werr \/ "write" \in flt)
        s4a == IF ~hasWriter THEN s3_
               ELSE IF writeFails THEN [s3_ EXCEPT !.werr = @ \cup {marketID}]
               ELSE WriteLine(s3_, marketID, line)
        entry == [m |-> marketID, flt |-> flt,
                  stickyErr |-> marketID \in s2.werr,
                  hadWriter |-> marketID \in s2.writers,
                  hasWriter |-> hasWriter,
                  wrote |-> hasWriter /\ ~writeFails,
                  cachedAtWrite |-> marketID \in s3_.cache,
                  cachedBefore |-> marketID \in st.cache,
                  requested |-> s1.listCalls > st.listCalls,
                  lenBefore |-> Len(s3_.plainLines[marketID]),
                  lenAfter |-> Len(s4a.plainLines[marketID]),
                  line |-> <<line>>]
        s4 == [s4a EXCEPT !.log = Append(@, entry)]
    IN  IF RunsSettlement(writeFails, marketJustSettled)
        THEN EvictCatalogue(
                 handleMarketSettlement(s4, marketID, single, flt,
                                        hasWriter, <<line>>),
                 marketID)
        ELSE s4

RECURSIVE ProcessEntries(_, _, _, _, _)
ProcessEntries(st, data, mc, i, flt) ==
    IF i > Len(mc) THEN st
    ELSE ProcessEntries(ProcessEntry(st, data, mc[i], flt), data, mc, i + 1, flt)

\* MutProcessPayload processes the mc of a heartbeat too.
MutProcessPayload(st, payload, flt) ==
    IF ExtractOp(payload) # "mcm" THEN st
    ELSE IF ~Has(payload, "mc") THEN st
    ELSE IF Len(payload.mc) = 0 THEN st
    ELSE ProcessEntries(st, payload, payload.mc, 1, flt)

\* The maps and files after readMessage has processed payload.
ProcessPayload(st, payload, flt) ==
    IF ExtractOp(payload) # "mcm" THEN st
    ELSE IF ExtractChangeType(payload) = "HEARTBEAT" THEN st
    ELSE IF ~Has(payload, "mc") THEN st
    ELSE IF Len(payload.mc) = 0 THEN st
    ELSE ProcessEntries(st, payload, payload.mc, 1, flt)

\* ------------------------------------------------------------------ frames

\* The key k with value v, or no key when v is "".
Opt(k, v) == IF v = "" THEN EmptyObject ELSE (k :> v)

\* Frames without market changes: heartbeats, connection and status frames,
\* with every combination of the two clocks.
ClockFrames ==
    {("op" :> o) @@ Opt("ct", ct) @@ Opt("initialClk", ic) @@ Opt("clk", c) :
        o \in {"mcm", "connection"}, ct \in {"", "HEARTBEAT"},
        ic \in {"", "i1", "i2"}, c \in {"", "c1", "c2"}}

\* mcm frames whose mc is absent or empty.
EmptyMcFrames ==
    {[op |-> "mcm", pt |-> "p1", clk |-> "c1"],
     [op |-> "mcm", pt |-> "p1", clk |-> "c1", mc |-> <<>>]}

MarketDefs ==
    {[status |-> "OPEN", eventId |-> "E"],
     [status |-> "CLOSED", eventId |-> "E"],
     [status |-> "CLOSED"]}

\* Market changes of the markets ms, and one entry without an id.
Entries(ms) ==
    {[id |-> m, rc |-> "r"] : m \in ms}
    \cup {[id |-> m, marketDefinition |-> d] : m \in ms, d \in MarketDefs}
    \cup {[rc |-> "r"]}

\* mcm frames with 1..n market changes; they carry the top-level id of the
\* subscription they answer.
MarketFrames(ms, n) ==
    {[op |-> "mcm", id |-> "3", pt |-> "p1", clk |-> "c1", mc |-> mc] :
        mc \in SeqsUpTo(Entries(ms), n) \ {<<>>}}

\* The frames of SpecStream.
StreamMarketFrames == MarketFrames(Markets, MaxMc)

\* The frames of SpecClose: one market change of one market.
SingleMarketFrames == MarketFrames({"1.A"}, 1)

StreamOtherFrames ==
    EmptyMcFrames
    \cup {[op |-> "mcm", ct |-> "HEARTBEAT", clk |-> "c1",
           mc |-> <<[id |-> "1.A", marketDefinition |-> [status |-> "CLOSED"]]>>],
          [op |-> "status", clk |-> "c1",
           mc |-> <<[id |-> "1.A", marketDefinition |-> [status |-> "CLOSED"]]>>]}

\* ------------------------------------------------------------------- Init

\* An error returned by runWithReconnect: kind "" is no error, kind
\* "max retries exceeded" wraps err, kind "error" is err itself.
NoError == [kind |-> "", err |-> ""]

\* Worker goroutines one processFilesParallel call can start.
MaxWorkers == 2

WorkerIds == 1..MaxWorkers

\* A goroutine that was not started, and the caller between two calls.
IdleWorker == [pc |-> "idle", filePath |-> "", err |-> ""]
IdleCaller == [pc |-> "idle", filePath |-> "", filePaths |-> <<>>,
               cap |-> 0, ret |-> "", ncalls |-> 0]

\* No offline processor was constructed.
NoProcessor ==
    /\ FileLimit = 0
    /\ Workers = 0
    /\ FilesProcessed = 0
    /\ filesCh = <<>>
    /\ errorsCh = <<>>
    /\ worker = [i \in WorkerIds |-> IdleWorker]
    /\ caller = IdleCaller
    /\ received = <<>>

\* The recorder after NewMarketRecorder.
InitRecorderState ==
    /\ initialClk = ""
    /\ clk = ""
    /\ marketCatalogues = {}
    /\ marketStatuses = [m \in Markets |-> ""]
    /\ writers = {}
    /\ files = {}
    /\ writerErr = {}
    /\ plainEx = {}
    /\ plainLines = [m \in Markets |-> <<>>]
    /\ bz2Ex = {}
    /\ bz2Lines = [m \in Markets |-> <<>>]
    /\ s3 = {}
    /\ handles = [m \in Markets |-> 0]
    /\ sessionToken = "T1"
    /\ configSessionToken = "T1"
    /\ restSessionKey = "T1"
    /\ authSession = ""
    /\ subscription = EmptyObject
    /\ sent = <<>>
    /\ nread = 0
    /\ ack = EmptyObject
    /\ nframes = 0
    /\ firstInitialSeen = ""
    /\ lastInitialSeen = ""
    /\ lastClkSeen = ""
    /\ lastFrame = [op |-> "", ct |-> "", clk |-> "", ids |-> <<>>]
    /\ consecFails = 0
    /\ settleCount = [m \in Markets |-> 0]
    /\ edgeCount = [m \in Markets |-> 0]
    /\ entryLog = <<>>
    /\ txns = <<>>
    /\ ctxDone = FALSE
    /\ rwrResult = NoError
    /\ runResult = ""
    /\ conns = <<>>
    /\ deferred = <<>>

InitRecorder == InitRecorderState /\ NoProcessor

\* No pure function is under check.
NoCall == fnIn = EmptyObject /\ fnOut = EmptyObject

\* NewMarketRecorder has returned and Run is about to start; no S3 bucket is
\* configured (no frame of Spec reaches the settlement transaction).
Init ==
    /\ InitRecorder
    /\ NoCall
    /\ storage = FALSE
    /\ lastErr = ""
    /\ pc = "start"
    /\ attempt = 0

\* -------------------------------------------------------------- readMessage

\* The closer of openWriters (recorder.go:364-371) closes the handle that the
\* files map holds for each of its keys.
closeFn(h, f) == [m \in Markets |-> IF m \in f /\ h[m] > 0 THEN h[m] - 1 ELSE h[m]]

\* readMessage after stream.ReadMessage returned payload; flt are the I/O
\* steps that fail while this frame is processed.  When the context is
\* cancelled Run returns after this frame and its deferred closer runs.
readMessage(payload, flt) ==
    \E ck \in {ExtractAndStoreClock(payload)},
       st \in {ProcessPayload(RecState, payload, flt)} :
        /\ initialClk' = StoreInitialClk(initialClk, ck[1])
        /\ clk' = StoreClk(clk, ck[2])
        /\ marketCatalogues' = st.cache
        /\ marketStatuses' = st.statuses
        /\ writers' = st.writers
        /\ files' = st.files
        /\ writerErr' = st.werr
        /\ plainEx' = st.plainEx
        /\ plainLines' = st.plainLines
        /\ bz2Ex' = st.bz2Ex
        /\ bz2Lines' = st.bz2Lines
        /\ s3' = st.s3
        /\ handles' = IF ctxDone THEN closeFn(st.handles, st.files)
                       ELSE st.handles
        /\ settleCount' = st.settleCount
        /\ edgeCount' = st.edgeCount
        /\ entryLog' = st.log
        /\ txns' = st.txns
        /\ firstInitialSeen' =
               IF firstInitialSeen = "" /\ Has(payload, "initialClk")
               THEN payload.initialClk ELSE firstInitialSeen
        /\ lastInitialSeen' =
               IF Has(payload, "initialClk") /\ payload.initialClk # ""
               THEN payload.initialClk ELSE lastInitialSeen
        /\ lastClkSeen' =
               IF Has(payload, "clk") /\ payload.clk # ""
               THEN payload.clk ELSE lastClkSeen
        /\ lastFrame' = [op |-> ExtractOp(payload),
                         ct |-> ExtractChangeType(payload),
                         clk |-> Str(payload, "clk"),
                         ids |-> IF Has(payload, "mc")
                                 THEN [i \in 1..Len(payload.mc) |->
                                          Str(payload.mc[i], "id")]
                                 ELSE <<>>]

\* ctx.Err() once ctx.Done() is closed.
CtxErr == "context canceled"

\* An error value is its chain of wrapped errors, outermost first: each
\* layer is a sentinel error or the text a fmt.Errorf added with %w.
ErrorsIs(err, target) == \E i \in 1..Len(err) : err[i] = target

\* recorder.go:404-411
retriableErrors ==
    {"authentication failed", "connection closed", "subscription failed",
     "network error", "timeout", "session refreshed, retry connection"}

\* The phrase of retriableErrors a lower-cased text contains, "" for none.
Phrase(text) ==
    CASE text \in retriableErrors -> text
      [] text = "authentication failed: invalid_session" -> "authentication failed"
      [] text = "connection closed by peer" -> "connection closed"
      [] text = "network error occurred" -> "network error"
      [] text = "request timeout" -> "timeout"
      [] OTHER -> ""

\* strings.Contains(strings.ToLower(err.Error()), retriable) for some phrase.
ContainsRetriable(err) == \E i \in 1..Len(err) : Phrase(err[i]) # ""

\* MutIsRetriableError compares the error itself with the context errors.
MutIsRetriableError(err) ==
    IF ErrorsIs(err, "io.EOF") THEN TRUE
    ELSE IF err[1] \in {"context.Canceled", "context.DeadlineExceeded"}
    THEN FALSE
    ELSE TRUE

\* recorder.go:396-419: every branch but the context errors returns true.
isRetriableError(err) ==
    IF ErrorsIs(err, "io.EOF") THEN TRUE
    ELSE IF ErrorsIs(err, "context.Canceled")
            \/ ErrorsIs(err, "context.DeadlineExceeded") THEN FALSE
    ELSE IF ContainsRetriable(err) THEN TRUE
    ELSE TRUE

\* runWithReconnect returns ctx.Err() and Run returns it to its caller
\* (recorder.go:78-81).
ReturnCtxErr ==
    /\ pc' = "done"
    /\ rwrResult' = [kind |-> "error", err |-> CtxErr]
    /\ runResult' = CtxErr

\* MutNextRead goes on reading without a look at the context.
MutNextRead == UNCHANGED <<pc, lastErr, rwrResult, runResult>>

\* processStream's select after a frame was processed (recorder.go:170-173):
\* a cancelled context ends processStream with ctx.Err(), which is not
\* retriable, so runWithReconnect and then Run return it; otherwise the loop
\* blocks in the next stream.ReadMessage.
NextRead ==
    IF ctxDone
    THEN /\ ReturnCtxErr
         /\ lastErr' = CtxErr
    ELSE UNCHANGED <<pc, lastErr, rwrResult, runResult>>

readUnchanged == <<storage, attempt, ctxDone, tokenVars, subscription,
                   consecFails, hsVars, fnVars, procVars, connVars>>

\* SpecStream: a frame without market changes is read in the read loop.
ReadOtherFrame ==
    /\ pc = "stream"
    /\ nframes < MaxFrames
    /\ \E payload \in StreamOtherFrames : readMessage(payload, {})
    /\ nframes' = nframes + 1
    /\ NextRead
    /\ UNCHANGED readUnchanged

\* SpecStream: a frame with market changes is read in the read loop.
ReadMarketFrame ==
    /\ pc = "stream"
    /\ nframes < MaxFrames
    /\ \E payload \in StreamMarketFrames, flt \in FaultSets :
           readMessage(payload, flt)
    /\ nframes' = nframes + 1
    /\ NextRead
    /\ UNCHANGED readUnchanged

\* SpecClose: a frame with one market change is read in the read loop.
ReadSingleMarketFrame ==
    /\ pc = "stream"
    /\ nframes < MaxFrames + 1
    /\ \E payload \in SingleMarketFrames, flt \in FaultSets :
           readMessage(payload, flt)
    /\ nframes' = nframes + 1
    /\ NextRead
    /\ UNCHANGED readUnchanged

\* Spec: a frame without market changes, with any clocks, is read.
ReadClockFrame ==
    /\ pc = "stream"
    /\ \E payload \in ClockFrames : readMessage(payload, {})
    /\ NextRead
    /\ UNCHANGED <<nframes, readUnchanged>>

\* The heartbeat frames of SpecLive.
HeartbeatFrames ==
    {[op |-> "mcm", ct |-> "HEARTBEAT", clk |-> c] : c \in {"c1", "c2"}}

\* SpecLive: a heartbeat is read.
ReadHeartbeat ==
    /\ pc = "stream"
    /\ \E payload \in HeartbeatFrames : readMessage(payload, {})
    /\ NextRead
    /\ UNCHANGED <<nframes, readUnchanged>>

\* ------------------------------------------------- Run, runWithReconnect

\* config.MarketIDs, for which openWriters creates the writers eagerly.
ConfigMarketIDs == {{}, {"1.A"}}

dataUnchanged == <<clockVars, recVars, storage, nframes, hsVars, fnVars,
                   procVars, connVars>>

\* The smaller of two numbers.
Min(a, b) == IF a < b THEN a ELSE b

\* Run calls openWriters (recorder.go:65-71, 360-383).
OpenWriters ==
    /\ pc = "start"
    /\ \E ids \in ConfigMarketIDs, ok \in BOOLEAN :
        IF ok
        THEN /\ writers' = ids
             /\ files' = ids
             /\ plainEx' = ids
             /\ handles' = [m \in Markets |-> IF m \in ids THEN 1 ELSE 0]
             /\ pc' = "run"
             /\ UNCHANGED runResult
        ELSE /\ ids # {}
             /\ pc' = "done"
             /\ runResult' = "open output file"
             /\ UNCHANGED <<writers, files, plainEx, handles>>
    /\ UNCHANGED <<clockVars, marketCatalogues, storage, marketStatuses,
                   writerErr, plainLines, bz2Ex, bz2Lines, s3, attempt,
                   ctxDone, lastErr, rwrResult, tokenVars, subscription,
                   nframes, consecFails, settleCount, edgeCount, entryLog,
                   txns, hsVars, fnVars, procVars, connVars>>

\* Top of Run's loop (recorder.go:73-78): return on a cancelled context,
\* else call runWithReconnect.
RunLoop ==
    /\ pc = "run"
    /\ IF ctxDone
       THEN /\ pc' = "done"
            /\ runResult' = CtxErr
            /\ handles' = closeFn(handles, files)
            /\ UNCHANGED <<attempt, lastErr, rwrResult>>
       ELSE /\ pc' = "dial"
            /\ attempt' = 1
            /\ lastErr' = ""
            /\ rwrResult' = NoError
            /\ UNCHANGED <<runResult, handles>>
    /\ UNCHANGED <<dataUnchanged, ctxDone, tokenVars, subscription,
                   consecFails>>

\* establishConnection returned err at this attempt (recorder.go:102-114):
\* below the budget the attempt waits in the backoff select; at the last
\* attempt the loop ends and "max retries exceeded: lastErr" goes to Run,
\* which logs it and waits in its own select (recorder.go:78-89, 135).
EstablishFailed(err) ==
    /\ lastErr' = err
    /\ consecFails' = Min(consecFails + 1, maxRetries)
    /\ IF attempt < maxRetries
       THEN /\ pc' = "backoff"
            /\ UNCHANGED rwrResult
       ELSE /\ pc' = "run_backoff"
            /\ rwrResult' = [kind |-> "max retries exceeded", err |-> err]
    /\ UNCHANGED <<attempt, runResult, handles>>

\* The attempt goes on to its next handshake step.
Proceed(next) ==
    /\ pc' = next
    /\ UNCHANGED <<attempt, lastErr, rwrResult, runResult, consecFails,
                   handles>>

\* streamClient.Dial (recorder.go:139-142).
Dial ==
    /\ pc = "dial"
    /\ \E ok \in BOOLEAN :
        IF ok THEN Proceed("auth") ELSE EstablishFailed("dial failed")
    /\ UNCHANGED <<dataUnchanged, ctxDone, tokenVars, subscription>>

\* The errors Authenticate returns (stream.go:146-162).
AckErr == "authentication ack error"
RefreshedErr == "session refreshed, retry connection"
RefreshFailedErr == "failed to refresh session token"

\* establishConnection wraps them (recorder.go:150).
WrapAuthErr(err) ==
    CASE err = AckErr -> "authentication failed"
      [] err = RefreshedErr ->
             "authentication failed: session refreshed, retry connection"
      [] err = RefreshFailedErr ->
             "authentication failed: failed to refresh session token"

\* MutTokenAfterRefresh drops the token when Login fails.
MutTokenAfterRefresh(old, loginOK) == IF loginOK THEN "T2" ELSE ""

\* StreamClient.sessionToken after the refresh branch (stream.go:152-160):
\* Login returns the token T2 or an error.
TokenAfterRefresh(old, loginOK) == IF loginOK THEN "T2" ELSE old

\* MutPropagateToken leaves the config and the REST client alone.
MutPropagateToken(err, streamToken, old) == old

\* recorder.go:146-149: the config and the REST client take the stream
\* client's token when the error says "session refreshed".
PropagateToken(err, streamToken, old) ==
    IF err = RefreshedErr THEN streamToken ELSE old

\* streamClient.Authenticate and its error branch (recorder.go:144-151,
\* stream.go:112-167).  The authentication message carries the token the
\* stream client holds; "refresh": the ack was an invalid-session error and
\* Login was called.
Authenticate ==
    /\ pc = "auth"
    /\ authSession' = sessionToken
    /\ \E outcome \in {"ok", "failed", "refresh"}, loginOK \in BOOLEAN :
        IF outcome = "ok"
        THEN /\ loginOK
             /\ Proceed("hb")
             /\ UNCHANGED <<sessionToken, configSessionToken, restSessionKey>>
        ELSE \E err \in {IF outcome = "failed" THEN AckErr
                         ELSE IF loginOK THEN RefreshedErr
                         ELSE RefreshFailedErr},
                tok \in {IF outcome = "failed" THEN sessionToken
                         ELSE TokenAfterRefresh(sessionToken, loginOK)} :
                 /\ outcome = "failed" => loginOK
                 /\ sessionToken' = tok
                 /\ configSessionToken' =
                        PropagateToken(err, tok, configSessionToken)
                 /\ restSessionKey' = PropagateToken(err, tok, restSessionKey)
                 /\ EstablishFailed(WrapAuthErr(err))
    /\ UNCHANGED <<dataUnchanged, ctxDone, subscription>>

\* streamClient.RequestHeartbeat (recorder.go:153-156).
RequestHeartbeat ==
    /\ pc = "hb"
    /\ \E ok \in BOOLEAN :
        IF ok THEN Proceed("sub")
        ELSE EstablishFailed("heartbeat request failed")
    /\ UNCHANGED <<dataUnchanged, ctxDone, tokenVars, subscription>>

\* MutSubscribeMsg forgets the checkpoint when a resume base is sent.
MutSubscribeMsg(ic, c) ==
    [op |-> "marketSubscription", id |-> "3"]
    @@ Opt("initialClk", ic) @@ (IF ic = "" THEN Opt("clk", c) ELSE EmptyObject)

\* The subscription message of stream.go:199-223, without its filters.
SubscribeMsg(ic, c) ==
    [op |-> "marketSubscription", id |-> "3"]
    @@ Opt("initialClk", ic) @@ Opt("clk", c)

\* streamClient.Subscribe up to the write of the message (recorder.go:158-159,
\* stream.go:183-227).
Subscribe ==
    /\ pc = "sub"
    /\ \E ok \in BOOLEAN :
        IF ok
        THEN /\ subscription' = SubscribeMsg(initialClk, clk)
             /\ Proceed("suback")
        ELSE /\ UNCHANGED subscription
             /\ EstablishFailed("subscription failed")
    /\ UNCHANGED <<dataUnchanged, ctxDone, tokenVars>>

\* waitForSubscriptionAck (stream.go:232-265) ends, which takes the
\* subscription message out of flight; on success processStream starts with
\* its first select.
SubscriptionAck ==
    /\ pc = "suback"
    /\ subscription' = EmptyObject
    /\ \E ok \in BOOLEAN :
        IF ok
        THEN /\ IF ctxDone
                THEN /\ ReturnCtxErr
                     /\ lastErr' = CtxErr
                     /\ handles' = closeFn(handles, files)
                ELSE /\ pc' = "stream"
                     /\ UNCHANGED <<lastErr, rwrResult, runResult, handles>>
             /\ consecFails' = 0
             /\ UNCHANGED attempt
        ELSE EstablishFailed("subscription failed")
    /\ UNCHANGED <<dataUnchanged, ctxDone, tokenVars>>

\* stream.ReadMessage returns an error in the read loop (recorder.go:119-132,
\* 182-185).
ReadError ==
    /\ pc = "stream"
    /\ lastErr' = "EOF"
    /\ IF isRetriableError(<<"io.EOF">>) /\ attempt < maxRetries
       THEN /\ pc' = "backoff"
            /\ UNCHANGED rwrResult
       ELSE /\ pc' = "run_backoff"
            /\ rwrResult' = [kind |-> "error", err |-> "EOF"]
    /\ UNCHANGED <<dataUnchanged, attempt, ctxDone, runResult, tokenVars,
                   subscription, consecFails, handles>>

\* MutBackoff waits the retry delay without a look at the context.
MutBackoff ==
    /\ pc = "backoff"
    /\ pc' = "dial"
    /\ attempt' = attempt + 1
    /\ UNCHANGED <<rwrResult, runResult, handles>>
    /\ UNCHANGED <<dataUnchanged, ctxDone, lastErr, tokenVars,
                   subscription, consecFails>>

\* MutBackoffNewMaps starts the next attempt with empty writers, files and
\* status maps.
MutBackoffNewMaps ==
    /\ pc = "backoff"
    /\ pc' = "dial"
    /\ attempt' = attempt + 1
    /\ writers' = {}
    /\ files' = {}
    /\ marketStatuses' = [m \in Markets |-> ""]
    /\ UNCHANGED <<marketCatalogues, writerErr, plainEx, plainLines, bz2Ex,
                   bz2Lines, s3, settleCount, edgeCount, entryLog, txns>>
    /\ UNCHANGED <<clockVars, storage, nframes, hsVars, fnVars, procVars,
                   connVars, rwrResult, runResult, handles, ctxDone, lastErr,
                   tokenVars, subscription, consecFails>>

\* The select of runWithReconnect between two attempts (recorder.go:106-111,
\* 124-129).  A context cancelled before the retry delay is over wins.
Backoff ==
    /\ pc = "backoff"
    /\ IF ctxDone
       THEN /\ ReturnCtxErr
            /\ handles' = closeFn(handles, files)
            /\ UNCHANGED attempt
       ELSE /\ pc' = "dial"
            /\ attempt' = attempt + 1
            /\ UNCHANGED <<rwrResult, runResult, handles>>
    /\ UNCHANGED <<dataUnchanged, ctxDone, lastErr, tokenVars,
                   subscription, consecFails>>

\* MutRunBackoff returns runWithReconnect's error to Run's caller.
MutRunBackoff ==
    /\ pc = "run_backoff"
    /\ pc' = "done"
    /\ runResult' = IF ctxDone THEN CtxErr ELSE rwrResult.kind
    /\ handles' = closeFn(handles, files)
    /\ UNCHANGED <<dataUnchanged, attempt, ctxDone, lastErr, rwrResult,
                   tokenVars, subscription, consecFails>>

\* Run's select after runWithReconnect returned an error that is no context
\* error (recorder.go:82-89).
RunBackoff ==
    /\ pc = "run_backoff"
    /\ IF ctxDone
       THEN /\ pc' = "done"
            /\ runResult' = CtxErr
            /\ handles' = closeFn(handles, files)
       ELSE /\ pc' = "run"
            /\ UNCHANGED <<runResult, handles>>
    /\ UNCHANGED <<dataUnchanged, attempt, ctxDone, lastErr, rwrResult,
                   tokenVars, subscription, consecFails>>

\* The caller cancels the context.
Cancel ==
    /\ ~ctxDone
    /\ pc # "done"
    /\ ctxDone' = TRUE
    /\ UNCHANGED <<dataUnchanged, pc, attempt, lastErr, rwrResult, runResult,
                   tokenVars, subscription, consecFails, handles>>

Next ==
    \/ OpenWriters
    \/ RunLoop
    \/ Dial
    \/ Authenticate
    \/ RequestHeartbeat
    \/ Subscribe
    \/ SubscriptionAck
    \/ ReadClockFrame
    \/ ReadError
    \/ Backoff
    \/ RunBackoff
    \/ Cancel

Spec == Init /\ [][Next]_vars

\* ---------------------------------------------------------------- SpecLive

\* Run with heartbeats as its only frames.
NextLive ==
    \/ OpenWriters
    \/ RunLoop
    \/ Dial
    \/ Authenticate
    \/ RequestHeartbeat
    \/ Subscribe
    \/ SubscriptionAck
    \/ ReadHeartbeat
    \/ ReadError
    \/ Backoff
    \/ RunBackoff
    \/ Cancel

\* Every blocking read, handshake step and timer eventually returns.
SpecLive == Init /\ [][NextLive]_vars /\ WF_vars(NextLive)

\* ------------------------------------------------------------- SpecStream

\* The first connection is established: openWriters, dial, authentication,
\* heartbeat request and subscription succeeded at attempt 1 and no frame
\* was read yet; an S3 bucket is configured or not.
InitStream ==
    /\ InitRecorder
    /\ NoCall
    /\ storage \in BOOLEAN
    /\ lastErr = ""
    /\ pc = "stream"
    /\ attempt = 1

NextStream == ReadOtherFrame \/ ReadMarketFrame

SpecStream == InitStream /\ [][NextStream]_vars

\* -------------------------------------------------------------- SpecClose

\* The read loop on an established connection until the context is
\* cancelled and Run returns.
NextClose == ReadSingleMarketFrame \/ Cancel

SpecClose == InitStream /\ [][NextClose]_vars

\* ---------------------------------------------------------------- SpecErr

\* Texts of error layers: the phrases, texts that contain one, and others.
ErrTexts ==
    retriableErrors
    \cup {"authentication failed: invalid_session", "connection closed by peer",
          "network error occurred", "request timeout", "something went wrong"}

ErrSentinels == {"io.EOF", "context.Canceled", "context.DeadlineExceeded"}

\* Layers fmt.Errorf puts around an error.
MaxWrap == 1

\* A sentinel or a plain error, under at most MaxWrap layers of text.
ErrChains ==
    {w \o <<e>> : w \in SeqsUpTo(ErrTexts, MaxWrap),
                  e \in ErrTexts \cup ErrSentinels}

\* processStream has returned the error lastErr to runWithReconnect.
InitErr ==
    /\ InitRecorder
    /\ NoCall
    /\ storage = FALSE
    /\ lastErr \in ErrChains
    /\ pc = "classify"
    /\ attempt = 1

\* The call r.isRetriableError(err) of recorder.go:121.
Classify ==
    /\ pc = "classify"
    /\ pc' = IF isRetriableError(lastErr) THEN "retriable" ELSE "not retriable"
    /\ UNCHANGED <<dataUnchanged, attempt, ctxDone, lastErr, rwrResult,
                   runResult, tokenVars, subscription, consecFails, handles>>

SpecErr == InitErr /\ [][Classify]_vars

\* ---------------------------------------------------------- SpecHandshake

\* Frames one handshake loop reads before its read deadline ends it.
MaxWait == 2

\* strings.TrimSpace, strings.ToUpper and strings.ToLower on the texts of
\* the frames below.
TrimSpace(v) == IF v = " " THEN "" ELSE v

ToUpper(v) == IF v = "success" THEN "SUCCESS" ELSE v

ToLower(v) == IF v = "NO_SESSION" THEN "no_session" ELSE v

\* config.go:111-118: the first value that is not blank, else "".
RECURSIVE firstNonEmpty(_)
firstNonEmpty(values) ==
    IF Len(values) = 0 THEN ""
    ELSE IF TrimSpace(Head(values)) # "" THEN Head(values)
    ELSE firstNonEmpty(Tail(values))

\* The errorMessage of validateAck's error (stream.go:287).
AckErrMsg(a) ==
    firstNonEmpty(<<Str(a, "errorMessage"), Str(a, "errorCode"),
                    "unknown error">>)

\* MutValidateAck compares the status as it is written.
MutValidateAck(expectedOp, a) ==
    IF Str(a, "op") # expectedOp /\ Str(a, "op") # "status"
    THEN "unexpected op \"" \o Str(a, "op") \o "\" (want \"" \o expectedOp
             \o "\")"
    ELSE IF firstNonEmpty(<<Str(a, "status"), Str(a, "statusCode")>>)
                # "SUCCESS"
    THEN expectedOp \o " failed: " \o AckErrMsg(a)
    ELSE ""

\* stream.go:267-292; the text of the error, "" for nil.
validateAck(expectedOp, a) ==
    IF Str(a, "op") # expectedOp /\ Str(a, "op") # "status"
    THEN "unexpected op \"" \o Str(a, "op") \o "\" (want \"" \o expectedOp
             \o "\")"
    ELSE IF ToUpper(firstNonEmpty(<<Str(a, "status"), Str(a, "statusCode")>>))
                # "SUCCESS"
    THEN expectedOp \o " failed: " \o AckErrMsg(a)
    ELSE ""

\* IsInvalidSessionError (part_009:630-635) on the error validateAck gave for
\* frame a: of the texts of the frames only the lower-cased message
\* NO_SESSION contains one of the three phrases.
IsInvalidSessionError(expectedOp, a) ==
    /\ Str(a, "op") \in {expectedOp, "status"}
    /\ ToLower(AckErrMsg(a)) \in {"invalid_session_information",
                                  "unrecognisedcredentials", "no_session"}

\* What the server may send during the handshake: connection and heartbeat
\* frames, acks with every mix of status, statusCode, errorMessage and
\* errorCode, and market data.
HandshakeFrames ==
    {[op |-> "connection", connectionId |-> "c"], [op |-> "heartbeat"]}
    \cup {("op" :> o) @@ Opt("status", st) @@ Opt("statusCode", sc)
              @@ Opt("errorMessage", em) @@ Opt("errorCode", ec) :
             o \in {"authentication", "status", "marketSubscription", "mcm"},
             st \in {"", " ", "success", "FAILURE"},
             sc \in {"", "SUCCESS", "FAILURE"},
             em \in {"", "bad key"}, ec \in {"", "NO_SESSION"}}
    \cup {[op |-> "mcm", id |-> "3", ct |-> "SUB_IMAGE", initialClk |-> "i1",
           clk |-> "c1", pt |-> "p1",
           mc |-> <<[id |-> "1.A",
                     marketDefinition |-> [status |-> "OPEN"]]>>]}

\* Dial has returned the connection of attempt 1.
InitHandshake ==
    /\ InitRecorder
    /\ NoCall
    /\ storage = FALSE
    /\ lastErr = ""
    /\ pc = "auth_send"
    /\ attempt = 1

hsUnchanged == <<clockVars, recVars, storage, nframes, ctxDone, fnVars,
                 procVars, connVars>>

\* Authenticate writes the authentication message (stream.go:113-123).
SendAuthentication ==
    /\ pc = "auth_send"
    /\ authSession' = sessionToken
    /\ \E ok \in BOOLEAN :
        IF ok
        THEN /\ sent' = Append(sent, "authentication")
             /\ Proceed("auth_read")
        ELSE /\ EstablishFailed("authentication failed: send authentication: "
                                    \o "write error")
             /\ UNCHANGED sent
    /\ UNCHANGED <<hsUnchanged, sessionToken, configSessionToken,
                   restSessionKey, subscription, nread, ack>>

\* One iteration of Authenticate's read loop (stream.go:130-166) and, when
\* it returns an error, establishConnection's error branch
\* (recorder.go:144-151).  authenticator: sc.authenticator != nil.
AuthenticateRead ==
    /\ pc = "auth_read"
    /\ nread < MaxWait
    /\ nread' = nread + 1
    /\ \E payload \in HandshakeFrames, authenticator \in BOOLEAN,
          loginOK \in BOOLEAN :
        /\ ack' = payload
        /\ \E err \in {validateAck("authentication", payload)} :
            IF ExtractOp(payload) \in {"connection", "heartbeat"}
            THEN UNCHANGED <<pc, attempt, lastErr, rwrResult, runResult,
                             consecFails, handles, sessionToken,
                             configSessionToken, restSessionKey>>
            ELSE IF err = ""
            THEN /\ Proceed("hb_send")
                 /\ UNCHANGED <<sessionToken, configSessionToken,
                                restSessionKey>>
            ELSE IF IsInvalidSessionError("authentication", payload)
                    /\ authenticator
            THEN /\ sessionToken' = TokenAfterRefresh(sessionToken, loginOK)
                 /\ IF loginOK
                    THEN /\ configSessionToken' =
                                PropagateToken(RefreshedErr, sessionToken',
                                               configSessionToken)
                         /\ restSessionKey' =
                                PropagateToken(RefreshedErr, sessionToken',
                                               restSessionKey)
                         /\ EstablishFailed(
                                "authentication failed: "
                                \o "session refreshed, retry connection: "
                                \o err)
                    ELSE /\ UNCHANGED <<configSessionToken, restSessionKey>>
                         /\ EstablishFailed(
                                "authentication failed: "
                                \o "failed to refresh session token: "
                                \o "login failed")
            ELSE /\ EstablishFailed("authentication failed: " \o err)
                 /\ UNCHANGED <<sessionToken, configSessionToken,
                                restSessionKey>>
    /\ UNCHANGED <<hsUnchanged, authSession, subscription, sent>>

\* stream.ReadMessage fails in Authenticate: the connection is closed or the
\* read deadline of 30 s has passed (stream.go:125-135).
AuthenticateReadError ==
    /\ pc = "auth_read"
    /\ EstablishFailed("authentication failed: read authentication response: "
                           \o "i/o timeout")
    /\ UNCHANGED <<hsUnchanged, tokenVars, subscription, hsVars>>

\* RequestHeartbeat writes its message (stream.go:169-179).
SendHeartbeat ==
    /\ pc = "hb_send"
    /\ \E ok \in BOOLEAN :
        IF ok
        THEN /\ sent' = Append(sent, "heartbeat")
             /\ Proceed("sub_send")
        ELSE /\ EstablishFailed("heartbeat request failed: "
                                    \o "send heartbeat request: write error")
             /\ UNCHANGED sent
    /\ UNCHANGED <<hsUnchanged, tokenVars, subscription, nread, ack>>

\* Subscribe writes the subscription message and calls
\* waitForSubscriptionAck (stream.go:199-229).
SendSubscription ==
    /\ pc = "sub_send"
    /\ \E ok \in BOOLEAN :
        IF ok
        THEN /\ sent' = Append(sent, "marketSubscription")
             /\ subscription' = SubscribeMsg(initialClk, clk)
             /\ nread' = 0
             /\ Proceed("ack_read")
        ELSE /\ EstablishFailed("subscription failed: send subscription: "
                                    \o "write error")
             /\ UNCHANGED <<sent, subscription, nread>>
    /\ UNCHANGED <<hsUnchanged, tokenVars, ack>>

\* MutWaitForSubscriptionAckRead stores the clocks of the frame it reads.
MutWaitForSubscriptionAckRead ==
    /\ pc = "ack_read"
    /\ nread < MaxWait
    /\ nread' = nread + 1
    /\ \E payload \in HandshakeFrames :
        /\ ack' = payload
        /\ \E ck \in {ExtractAndStoreClock(payload)} :
            /\ initialClk' = StoreInitialClk(initialClk, ck[1])
            /\ clk' = StoreClk(clk, ck[2])
        /\ IF ExtractOp(payload) # "heartbeat"
              /\ \/ validateAck("marketSubscription", payload) = ""
                 \/ validateAck("status", payload) = ""
           THEN /\ pc' = "stream"
                /\ subscription' = EmptyObject
                /\ consecFails' = 0
                /\ UNCHANGED <<attempt, lastErr, rwrResult, runResult, handles>>
           ELSE UNCHANGED <<pc, subscription, consecFails, attempt, lastErr,
                            rwrResult, runResult, handles>>
    /\ UNCHANGED <<firstInitialSeen, lastInitialSeen, lastClkSeen, lastFrame,
                   recVars, storage, nframes, ctxDone, fnVars, procVars,
                   connVars, tokenVars, sent>>

\* One iteration of the loop of waitForSubscriptionAck (stream.go:237-264):
\* a heartbeat and a frame that neither validateAck accepts are passed over.
WaitForSubscriptionAckRead ==
    /\ pc = "ack_read"
    /\ nread < MaxWait
    /\ nread' = nread + 1
    /\ \E payload \in HandshakeFrames :
        /\ ack' = payload
        /\ IF ExtractOp(payload) # "heartbeat"
              /\ \/ validateAck("marketSubscription", payload) = ""
                 \/ validateAck("status", payload) = ""
           THEN /\ pc' = "stream"
                /\ subscription' = EmptyObject
                /\ consecFails' = 0
                /\ UNCHANGED <<attempt, lastErr, rwrResult, runResult, handles>>
           ELSE UNCHANGED <<pc, subscription, consecFails, attempt, lastErr,
                            rwrResult, runResult, handles>>
    /\ UNCHANGED <<hsUnchanged, tokenVars, sent>>

\* stream.ReadMessage fails in waitForSubscriptionAck: the connection is
\* closed or the read deadline of 30 s has passed (stream.go:233-243);
\* establishConnection wraps the error (recorder.go:159-162).
WaitForSubscriptionAckReadError ==
    /\ pc = "ack_read"
    /\ subscription' = EmptyObject
    /\ EstablishFailed("subscription failed: waiting subscription ack: "
                           \o "i/o timeout")
    /\ UNCHANGED <<hsUnchanged, tokenVars, hsVars>>

NextHandshake ==
    \/ SendAuthentication
    \/ AuthenticateRead
    \/ AuthenticateReadError
    \/ SendHeartbeat
    \/ SendSubscription
    \/ WaitForSubscriptionAckRead
    \/ WaitForSubscriptionAckReadError

\* One connection attempt after Dial, frame by frame.
SpecHandshake == InitHandshake /\ [][NextHandshake]_vars

\* ------------------------------------------------------------- SpecEnrich

\* Runners of one marketDefinition.
MaxRunners == 2

\* What a pure function under check leaves alone.
fnUnchanged == <<clockVars, recVars, storage, nframes, hsVars, fnIn, attempt,
                 ctxDone, lastErr, rwrResult, runResult, tokenVars,
                 subscription, consecFails, handles, procVars, connVars>>

\* The catalogue's runner with selection id 1 and handicap h.
CatRunner(h) ==
    [selectionId |-> 1, runnerName |-> "Rex", handicap |-> h,
     sortPriority |-> 3]

\* Catalogues with and without event, venue, event type, competition and
\* runner.
EnrichCatalogues ==
    {[marketName |-> "Win", runners |-> rs] @@ ev @@ et @@ co :
        rs \in {<<>>, <<CatRunner(0)>>, <<CatRunner(2)>>},
        ev \in {EmptyObject, "event" :> [name |-> "Race", venue |-> ""],
                "event" :> [name |-> "Race", venue |-> "Track"]},
        et \in {EmptyObject, "eventType" :> [name |-> "Greyhounds"]},
        co \in {EmptyObject, "competition" :> [name |-> "Cup"]}}

\* Runners of the stream: in the catalogue, in it with the enriched keys
\* already set, not in it, and without an id.
StreamRunners ==
    {[id |-> 1, status |-> "ACTIVE"],
     [id |-> 1, status |-> "ACTIVE", adjustmentFactor |-> 5, name |-> "old",
      handicap |-> 7, sortPriority |-> 9],
     [id |-> 2, status |-> "ACTIVE"],
     [status |-> "ACTIVE"]}

EnrichDefs ==
    {base @@ rs :
        base \in {[status |-> "OPEN"],
                  [status |-> "OPEN", marketName |-> "Old",
                   eventName |-> "OldEvent", venue |-> "OldVenue",
                   eventTypeName |-> "OldType", competitionName |-> "OldCup"]},
        rs \in {EmptyObject}
               \cup {"runners" :> r : r \in SeqsUpTo(StreamRunners, MaxRunners)}}

\* Single-market payloads as readMessage builds them, in both layouts.
EnrichPayloads ==
    {[layout |-> l, data |-> d] :
        l \in {"compact", "indented"},
        d \in {[op |-> "mcm", clk |-> "c1"],
               [op |-> "mcm", clk |-> "c1", mc |-> <<>>],
               [op |-> "mcm", clk |-> "c1", mc |-> <<[id |-> "1.A", rc |-> "r"]>>]}
              \cup {[op |-> "mcm", clk |-> "c1",
                     mc |-> <<[id |-> "1.A", rc |-> "r",
                               marketDefinition |-> def]>>] :
                       def \in EnrichDefs}}

\* enrichMarketData is about to be called for market 1.A, whose catalogue is
\* cached or not.
InitEnrich ==
    /\ InitRecorder
    /\ storage = FALSE
    /\ lastErr = ""
    /\ pc = "call"
    /\ attempt = 1
    /\ fnIn \in [catalogues : {EmptyObject}
                                \cup {"1.A" :> c : c \in EnrichCatalogues},
                 marketID : {"1.A"},
                 payload : EnrichPayloads]
    /\ fnOut = EmptyObject

\* The call r.enrichMarketData(marketID, filteredPayload) of recorder.go:278.
EnrichCall ==
    /\ pc = "call"
    /\ fnOut' = enrichMarketData(fnIn.catalogues, fnIn.marketID, fnIn.payload)
    /\ pc' = "returned"
    /\ UNCHANGED fnUnchanged

SpecEnrich == InitEnrich /\ [][EnrichCall]_vars

\* ---------------------------------------------------------------- SpecKey

\* os.PathSeparator of the build: filepath.Join joins with it.
Separator(goos) == IF goos = "windows" THEN "\\" ELSE "/"

\* filepath.Join for elements that are plain names: empty elements are
\* dropped, the others are joined with the separator of the build.
RECURSIVE filepathJoin(_, _)
filepathJoin(goos, elems) ==
    IF Len(elems) = 0 THEN ""
    ELSE IF Head(elems) = "" THEN filepathJoin(goos, Tail(elems))
    ELSE LET rest == filepathJoin(goos, Tail(elems)) IN
         IF rest = "" THEN Head(elems)
         ELSE Head(elems) \o Separator(goos) \o rest

\* storage.go:56-62
BuildS3Key(goos, basePath, eventInfo, filename) ==
    filepathJoin(goos,
                 <<IF basePath = "" THEN "raw_greyhounds_data" ELSE basePath,
                   "PRO", eventInfo.Year, eventInfo.Month, eventInfo.Day,
                   eventInfo.EventID, filename>>)

\* The event information ExtractEventInfo returns: no field is empty.
EventInfos ==
    [EventID : {"34773181", "12345"}, Year : {"2024", "2025"},
     Month : {"Sep", "Dec"}, Day : {"26", "31"}]

\* BuildS3Key is about to be called in a build for goos.
InitKey ==
    /\ InitRecorder
    /\ storage = TRUE
    /\ lastErr = ""
    /\ pc = "call"
    /\ attempt = 1
    /\ fnIn \in [goos : {"linux", "windows"},
                 basePath : {"", "custom-path", "test-data"},
                 eventInfo : EventInfos,
                 filename : {"1.248231892.bz2", "test.bz2"}]
    /\ fnOut = EmptyObject

\* The call r.storage.BuildS3Key(eventInfo, marketID+".bz2") of
\* recorder.go:346.
BuildS3KeyCall ==
    /\ pc = "call"
    /\ fnOut' = BuildS3Key(fnIn.goos, fnIn.basePath, fnIn.eventInfo,
                           fnIn.filename)
    /\ pc' = "returned"
    /\ UNCHANGED fnUnchanged

SpecKey == InitKey /\ [][BuildS3KeyCall]_vars

\* ------------------------------------------------------------ SpecCleanup

\* Paths one call of CleanupFiles names.
MaxFiles == 2

\* The paths under <root>.
Paths == {"1.A", "1.A.bz2", "1.B", "1.B.bz2"}

\* os.Remove: the files that exist afterwards and the error it returns; a
\* file in locked exists and cannot be removed.
osRemove(fs, file, locked) ==
    IF file \notin fs THEN [fs |-> fs, err |-> "no such file or directory"]
    ELSE IF file \in locked THEN [fs |-> fs, err |-> "permission denied"]
    ELSE [fs |-> fs \ {file}, err |-> ""]

\* MutFileManagerCleanupFiles stops at the first os.Remove that fails and
\* returns its error.
RECURSIVE MutFileManagerCleanupFiles(_, _, _)
MutFileManagerCleanupFiles(fs, paths, locked) ==
    IF Len(paths) = 0 THEN [fs |-> fs, err |-> ""]
    ELSE LET r == osRemove(fs, Head(paths), locked) IN
         IF r.err # "" THEN r
         ELSE MutFileManagerCleanupFiles(r.fs, Tail(paths), locked)

\* part_005:75-81, FileManager.CleanupFiles(paths...): the paths that exist
\* afterwards and the error the caller sees, which is none.
RECURSIVE FileManagerCleanupFiles(_, _, _)
FileManagerCleanupFiles(fs, paths, locked) ==
    IF Len(paths) = 0 THEN [fs |-> fs, err |-> ""]
    ELSE FileManagerCleanupFiles(osRemove(fs, Head(paths), locked).fs,
                                 Tail(paths), locked)

\* CleanupFiles is about to be called with fnIn.files while the files
\* fnIn.fs exist.
InitCleanup ==
    /\ InitRecorder
    /\ storage = TRUE
    /\ lastErr = ""
    /\ pc = "call"
    /\ attempt = 1
    /\ fnIn \in [fs : SUBSET Paths,
                 locked : {l \in SUBSET Paths : Cardinality(l) <= 1},
                 files : SeqsUpTo(Paths, MaxFiles)]
    /\ fnIn.locked \subseteq fnIn.fs
    /\ fnOut = <<>>

\* A call of CleanupFiles, and a second call with the same paths.
CleanupFilesCall ==
    /\ pc \in {"call", "returned"}
    /\ fnOut' = Append(fnOut,
                       FileManagerCleanupFiles(
                           IF pc = "call" THEN fnIn.fs ELSE fnOut[1].fs,
                           fnIn.files, fnIn.locked))
    /\ pc' = IF pc = "call" THEN "returned" ELSE "returned twice"
    /\ UNCHANGED fnUnchanged

SpecCleanup == InitCleanup /\ [][CleanupFilesCall]_vars

\* -------------------------------------------------------------- SpecOrder

\* The frames of SpecOrder: one or more market changes of one market.
OrderFrames == MarketFrames({"1.A"}, MaxMc)

\* The failures on the way of a line to its file: os.OpenFile in
\* createWriterForMarket, writer.Write and writer.Flush.
OrderFaultSets == {f \in FaultSets : f \subseteq {"create", "write"}}

\* The first connection is established and no S3 bucket is configured.
InitOrder == InitStream /\ storage = FALSE

\* SpecOrder: a frame with market changes of one market is read.
ReadOrderFrame ==
    /\ pc = "stream"
    /\ nframes < MaxFrames
    /\ \E payload \in OrderFrames, flt \in OrderFaultSets :
           readMessage(payload, flt)
    /\ nframes' = nframes + 1
    /\ NextRead
    /\ UNCHANGED readUnchanged

\* Frames are read, the connection breaks and runWithReconnect and Run
\* establish it again (recorder.go:73-136) with the maps of the one
\* openWriters call.
NextOrder ==
    \/ ReadOrderFrame
    \/ ReadError
    \/ Backoff
    \/ RunBackoff
    \/ RunLoop
    \/ Dial
    \/ Authenticate
    \/ RequestHeartbeat
    \/ Subscribe
    \/ SubscriptionAck

SpecOrder == InitOrder /\ [][NextOrder]_vars

\* --------------------------------------------------------------- SpecConn

\* Connections one behaviour of SpecConn dials.
MaxDials == 3

\* The connection tls.Dial returns: open, nothing written on it.
NewStreamConn == [open |-> TRUE, sent |-> <<>>, acked |-> FALSE,
                  streamed |-> FALSE]

\* json messages written on connection i so far, and one more.
WriteJSON(cs, i, op) == [cs EXCEPT ![i].sent = Append(@, op)]

\* MutStreamClose leaves the connection open.
MutStreamClose(cs, i) == cs

\* StreamConn.Close (stream.go:70-72) on connection i.
StreamClose(cs, i) == [cs EXCEPT ![i].open = FALSE]

\* The deferred calls of runWithReconnect run when it returns
\* (recorder.go:115): every connection it registered is closed.
RECURSIVE RunDeferred(_, _)
RunDeferred(cs, d) ==
    IF d = <<>> THEN cs
    ELSE RunDeferred(StreamClose(cs, d[Len(d)]), SubSeq(d, 1, Len(d) - 1))

\* Run has called runWithReconnect, which starts attempt 1; no S3 bucket is
\* configured.
InitConn ==
    /\ InitRecorder
    /\ NoCall
    /\ storage = FALSE
    /\ lastErr = ""
    /\ pc = "dial"
    /\ attempt = 1

connUnchanged == <<clockVars, recVars, storage, nframes, hsVars, fnVars,
                   procVars, tokenVars, subscription, handles, ctxDone,
                   runResult>>

\* establishConnection returned err (recorder.go:102-114): the attempt
\* waits for the next one, or, at the last attempt, the loop ends and
\* runWithReconnect returns "max retries exceeded", which runs its deferred
\* calls.  cs are the connections as establishConnection left them.
ConnEstablishFailed(cs, err) ==
    /\ lastErr' = err
    /\ consecFails' = Min(consecFails + 1, maxRetries)
    /\ IF attempt < maxRetries
       THEN /\ pc' = "backoff"
            /\ conns' = cs
            /\ UNCHANGED <<rwrResult, deferred>>
       ELSE /\ pc' = "run_backoff"
            /\ rwrResult' = [kind |-> "max retries exceeded", err |-> err]
            /\ conns' = RunDeferred(cs, deferred)
            /\ deferred' = <<>>
    /\ UNCHANGED attempt

\* The handshake goes on to its next step on the connections cs.
ConnProceed(cs, next) ==
    /\ pc' = next
    /\ conns' = cs
    /\ UNCHANGED <<attempt, lastErr, rwrResult, consecFails, deferred>>

\* streamClient.Dial (recorder.go:139-142, stream.go:96-110).
ConnDial ==
    /\ pc = "dial"
    /\ Len(conns) < MaxDials
    /\ \E ok \in BOOLEAN :
        IF ok THEN ConnProceed(Append(conns, NewStreamConn), "auth")
        ELSE ConnEstablishFailed(conns, "dial failed")
    /\ UNCHANGED connUnchanged

\* streamClient.Authenticate on the dialled connection and the error branch
\* of establishConnection (recorder.go:144-151): wrote, the authentication
\* message was written; ok, a good ack was read.
ConnAuthenticate ==
    /\ pc = "auth"
    /\ \E wrote \in BOOLEAN, ok \in BOOLEAN :
        \E cs \in {IF wrote THEN WriteJSON(conns, Len(conns), "authentication")
                   ELSE conns} :
            IF wrote /\ ok THEN ConnProceed(cs, "hb")
            ELSE ConnEstablishFailed(StreamClose(cs, Len(cs)),
                                     "authentication failed")
    /\ UNCHANGED connUnchanged

\* streamClient.RequestHeartbeat (recorder.go:153-156).
ConnRequestHeartbeat ==
    /\ pc = "hb"
    /\ \E wrote \in BOOLEAN :
        IF wrote
        THEN ConnProceed(WriteJSON(conns, Len(conns), "heartbeat"), "sub")
        ELSE ConnEstablishFailed(StreamClose(conns, Len(conns)),
                                 "heartbeat request failed")
    /\ UNCHANGED connUnchanged

\* streamClient.Subscribe with waitForSubscriptionAck (recorder.go:158-165)
\* and, when it succeeds, defer stream.Close() and the start of
\* processStream (recorder.go:115-119).
ConnSubscribe ==
    /\ pc = "sub"
    /\ \E wrote \in BOOLEAN, ok \in BOOLEAN :
        \E cs \in {IF wrote
                   THEN WriteJSON(conns, Len(conns), "marketSubscription")
                   ELSE conns} :
            IF wrote /\ ok
            THEN /\ pc' = "stream"
                 /\ conns' = [cs EXCEPT ![Len(cs)].acked = TRUE,
                                        ![Len(cs)].streamed = TRUE]
                 /\ deferred' = Append(deferred, Len(cs))
                 /\ consecFails' = 0
                 /\ UNCHANGED <<attempt, lastErr, rwrResult>>
            ELSE ConnEstablishFailed(StreamClose(cs, Len(cs)),
                                     "subscription failed")
    /\ UNCHANGED connUnchanged

\* processStream returns the error of stream.ReadMessage
\* (recorder.go:119-132): a retriable error below the budget goes to the
\* next attempt, else runWithReconnect returns and its deferred calls run.
ConnReadError ==
    /\ pc = "stream"
    /\ lastErr' = "EOF"
    /\ IF isRetriableError(<<"io.EOF">>) /\ attempt < maxRetries
       THEN /\ pc' = "backoff"
            /\ UNCHANGED <<rwrResult, connVars>>
       ELSE /\ pc' = "run_backoff"
            /\ rwrResult' = [kind |-> "error", err |-> "EOF"]
            /\ conns' = RunDeferred(conns, deferred)
            /\ deferred' = <<>>
    /\ UNCHANGED <<connUnchanged, attempt, consecFails>>

\* The retry delay of runWithReconnect is over (recorder.go:106-111,
\* 124-129): the next attempt starts.
ConnBackoff ==
    /\ pc = "backoff"
    /\ pc' = "dial"
    /\ attempt' = attempt + 1
    /\ UNCHANGED <<connUnchanged, lastErr, rwrResult, consecFails, connVars>>

\* Run's retry delay is over and Run calls runWithReconnect again
\* (recorder.go:73-89).
ConnRunAgain ==
    /\ pc = "run_backoff"
    /\ pc' = "dial"
    /\ attempt' = 1
    /\ lastErr' = ""
    /\ rwrResult' = NoError
    /\ UNCHANGED <<connUnchanged, consecFails, connVars>>

NextConn ==
    \/ ConnDial
    \/ ConnAuthenticate
    \/ ConnRequestHeartbeat
    \/ ConnSubscribe
    \/ ConnReadError
    \/ ConnBackoff
    \/ ConnRunAgain

\* The connections of the attempts of runWithReconnect, with no
\* cancellation.
SpecConn == InitConn /\ [][NextConn]_vars

\* --------------------------------------------------------------- SpecProc

\* Calls of ProcessFile and processFilesParallel in one behaviour.
MaxCalls == 2
\* The largest FileLimit.
MaxLimit == 2

\* The supported files of the input directory, as sort.Strings orders them.
InputFiles == <<"d/1.1", "d/1.2">>

\* The error of os.Open.
OpenErr(filePath) == "open " \o filePath

\* market_processor.go:720: the file limit is reached.
LimitReached(limit, filesProcessed) == limit > 0 /\ filesProcessed >= limit

\* ProcessFile up to the call of processReader (market_processor.go:714-745)
\* with the FilesProcessed it read under the read lock: "skip" returns nil,
\* "error" returns the error of os.Open, "read" goes on to processReader.
ProcessFileCheck(limit, filesProcessed, openOK) ==
    IF LimitReached(limit, filesProcessed) THEN "skip"
    ELSE IF ~openOK THEN "error"
    ELSE "read"

\* market_processor.go:935-938
FilesToProcess(limit, filePaths) ==
    IF limit > 0 /\ Len(filePaths) > limit
    THEN SubSeq(filePaths, 1, limit)
    ELSE filePaths

\* MutLastError takes the first value of the channel.
MutLastError(errs) == IF errs = <<>> THEN "" ELSE Head(errs)

\* market_processor.go:968-975: the last error of the closed channel that is
\* not nil, nil ("") when there is none.
RECURSIVE LastError(_)
LastError(errs) ==
    IF errs = <<>> THEN ""
    ELSE IF errs[Len(errs)] # "" THEN errs[Len(errs)]
    ELSE LastError(SubSeq(errs, 1, Len(errs) - 1))

\* NewMarketDataProcessor has returned a processor with a file limit and a
\* number of workers; the recorder does not run.
InitProc ==
    /\ InitRecorderState
    /\ NoCall
    /\ storage = FALSE
    /\ lastErr = ""
    /\ pc = "done"
    /\ attempt = 0
    /\ FileLimit \in 0..MaxLimit
    /\ Workers \in 1..MaxWorkers
    /\ FilesProcessed = 0
    /\ filesCh = <<>>
    /\ errorsCh = <<>>
    /\ worker = [i \in WorkerIds |-> IdleWorker]
    /\ caller = IdleCaller
    /\ received = <<>>

procUnchanged == <<clockVars, recVars, storage, nframes, hsVars, fnVars,
                   ctlVars, consecFails, handles, FileLimit, Workers,
                   connVars>>

\* The caller calls ProcessFile(filePath) (market_processor.go:714-745):
\* FilesProcessed is read under the read lock and the file is opened.
CallProcessFile ==
    /\ caller.pc = "idle"
    /\ caller.ncalls < MaxCalls
    /\ \E i \in 1..Len(InputFiles), openOK \in BOOLEAN :
        \E out \in {ProcessFileCheck(FileLimit, FilesProcessed, openOK)} :
            caller' = [caller EXCEPT
                !.ncalls = @ + 1,
                !.filePath = InputFiles[i],
                !.pc = IF out = "read" THEN "read" ELSE "idle",
                !.ret = IF out = "error" THEN OpenErr(InputFiles[i])
                        ELSE ""]
    /\ UNCHANGED <<procUnchanged, FilesProcessed, filesCh, errorsCh, worker,
                   received>>

\* processReader in the caller's goroutine ends (market_processor.go:846-851).
CallerProcessReader ==
    /\ caller.pc = "read"
    /\ FilesProcessed' = FilesProcessed + 1
    /\ caller' = [caller EXCEPT !.pc = "idle", !.ret = ""]
    /\ UNCHANGED <<procUnchanged, filesCh, errorsCh, worker, received>>

\* processFilesParallel up to wg.Wait (market_processor.go:929-962): the
\* channels are made, the truncated list is put in filesCh, filesCh is
\* closed and the workers are started.
CallProcessFilesParallel ==
    /\ caller.pc = "idle"
    /\ caller.ncalls < MaxCalls
    /\ \E n \in 0..Len(InputFiles) :
        \E filePaths \in {SubSeq(InputFiles, 1, n)} :
            /\ filesCh' = FilesToProcess(FileLimit, filePaths)
            /\ caller' = [caller EXCEPT !.ncalls = @ + 1, !.pc = "wait",
                                        !.filePaths = filePaths,
                                        !.cap = Len(filePaths), !.ret = ""]
    /\ errorsCh' = <<>>
    /\ received' = <<>>
    /\ worker' = [i \in WorkerIds |->
                     IF i <= Workers THEN [IdleWorker EXCEPT !.pc = "recv"]
                     ELSE IdleWorker]
    /\ UNCHANGED <<procUnchanged, FilesProcessed>>

\* for filePath := range filesCh (market_processor.go:953): the next path,
\* or the end of the loop and wg.Done when the closed channel is empty.
WorkerReceive(i) ==
    /\ worker[i].pc = "recv"
    /\ IF filesCh = <<>>
       THEN /\ worker' = [worker EXCEPT ![i].pc = "done"]
            /\ UNCHANGED <<filesCh, received>>
       ELSE /\ worker' = [worker EXCEPT ![i].pc = "check",
                                         ![i].filePath = Head(filesCh)]
            /\ filesCh' = Tail(filesCh)
            /\ received' = Append(received, Head(filesCh))
    /\ UNCHANGED <<procUnchanged, FilesProcessed, errorsCh, caller>>

\* ProcessFile in a worker up to processReader (market_processor.go:714-745).
WorkerProcessFile(i) ==
    /\ worker[i].pc = "check"
    /\ \E openOK \in BOOLEAN :
        \E out \in {ProcessFileCheck(FileLimit, FilesProcessed, openOK)} :
            worker' = [worker EXCEPT
                ![i].pc = IF out = "read" THEN "read" ELSE "send",
                ![i].err = IF out = "error" THEN OpenErr(worker[i].filePath)
                           ELSE ""]
    /\ UNCHANGED <<procUnchanged, FilesProcessed, filesCh, errorsCh, caller,
                   received>>

\* processReader in a worker ends (market_processor.go:846-851).
WorkerProcessReader(i) ==
    /\ worker[i].pc = "read"
    /\ FilesProcessed' = FilesProcessed + 1
    /\ worker' = [worker EXCEPT ![i].pc = "send", ![i].err = ""]
    /\ UNCHANGED <<procUnchanged, filesCh, errorsCh, caller, received>>

\* errorsCh <- err or errorsCh <- nil (market_processor.go:954-959); the
\* send blocks while the channel is full.
WorkerSend(i) ==
    /\ worker[i].pc = "send"
    /\ Len(errorsCh) < caller.cap
    /\ errorsCh' = Append(errorsCh, worker[i].err)
    /\ worker' = [worker EXCEPT ![i].pc = "recv", ![i].filePath = "",
                                ![i].err = ""]
    /\ UNCHANGED <<procUnchanged, FilesProcessed, filesCh, caller, received>>

\* wg.Wait returns when every worker is done; errorsCh is closed and read to
\* its end and processFilesParallel returns (market_processor.go:964-976).
WaitAndReturn ==
    /\ caller.pc = "wait"
    /\ \A i \in WorkerIds : worker[i].pc \in {"idle", "done"}
    /\ caller' = [caller EXCEPT !.pc = "idle", !.ret = LastError(errorsCh)]
    /\ UNCHANGED <<procUnchanged, FilesProcessed, filesCh, errorsCh, worker,
                   received>>

NextProc ==
    \/ CallProcessFile
    \/ CallerProcessReader
    \/ CallProcessFilesParallel
    \/ WaitAndReturn
    \/ \E i \in WorkerIds :
        \/ WorkerReceive(i)
        \/ WorkerProcessFile(i)
        \/ WorkerProcessReader(i)
        \/ WorkerSend(i)

\* The Go scheduler runs every goroutine that can take a step.
FairProc ==
    /\ WF_vars(WaitAndReturn)
    /\ \A i \in WorkerIds :
        WF_vars(WorkerReceive(i) \/ WorkerProcessFile(i)
                \/ WorkerProcessReader(i) \/ WorkerSend(i))

SpecProc == InitProc /\ [][NextProc]_vars /\ FairProc

\* ----------------------------------------------------------------- SpecID

\* JSON objects with and without a top-level id, with and without mc
\* entries that hold an id of their own, in both layouts.
IDPayloads ==
    {[layout |-> l,
      data |-> Opt("op", o) @@ Opt("id", i) @@ Opt("clk", c) @@ mc] :
        l \in {"compact", "indented"}, o \in {"", "mcm"},
        i \in {"", "3", "7"}, c \in {"", "c1"},
        mc \in {EmptyObject, "mc" :> <<[id |-> "1.A", rc |-> "r"]>>,
                "mc" :> <<[id |-> "1.A"], [rc |-> "r"]>>}}

\* RemoveIDField is about to be called.
InitID ==
    /\ InitRecorder
    /\ storage = FALSE
    /\ lastErr = ""
    /\ pc = "call"
    /\ attempt = 1
    /\ fnIn \in IDPayloads
    /\ fnOut = <<>>

\* The call RemoveIDField(singleMarketPayload) of recorder.go:270, and a
\* second call on what the first returned.
RemoveIDFieldCall ==
    /\ pc \in {"call", "returned"}
    /\ fnOut' = Append(fnOut,
                       RemoveIDField(IF pc = "call" THEN fnIn ELSE fnOut[1]))
    /\ pc' = IF pc = "call" THEN "returned" ELSE "returned twice"
    /\ UNCHANGED fnUnchanged

SpecID == InitID /\ [][RemoveIDFieldCall]_vars

\* ------------------------------------------------------------- properties

\* C1: initialClk is set once: after any prefix of frames it equals the
\* first non-empty initialClk a frame of the prefix carried (or is empty),
\* and a later frame with another non-empty initialClk does not overwrite it.
C1_InitialClkSetOnce == initialClk = firstInitialSeen

\* C2: after any prefix of frames clk equals the last non-empty clk a frame of
\* the prefix carried (or is empty), whatever the op or ct of the frames: a
\* heartbeat or a non-mcm frame with a clk updates it, a frame without a clk
\* leaves it unchanged.
C2_ClkIsLastSeen ==
    /\ clk = lastClkSeen
    /\ lastFrame.clk # "" => clk = lastFrame.clk

\* A connection frame with clk c2 was read, then a heartbeat without a clk.
C2_Witness ==
    /\ lastFrame.op = "mcm"
    /\ lastFrame.ct = "HEARTBEAT"
    /\ lastFrame.clk = ""
    /\ clk = "c2"
    /\ initialClk = ""
    /\ pc = "stream"

\* The message carries key k with value v, or lacks the key when v is "".
Carries(msg, k, v) == IF v = "" THEN ~Has(msg, k) ELSE Has(msg, k) /\ msg[k] = v

\* C3: every marketSubscription message sent carries the recorder's current
\* initialClk and clk, each if and only if it is non-empty, and no step
\* outside the read loop (connection failure, backoff, retry, session
\* refresh, handshake) changes the two clocks.
C3_SubscriptionCarriesClocks ==
    [][/\ pc # "stream" => initialClk' = initialClk /\ clk' = clk
       /\ pc = "sub" /\ pc' = "suback" =>
              /\ subscription'.op = "marketSubscription"
              /\ Carries(subscription', "initialClk", initialClk')
              /\ Carries(subscription', "clk", clk')]_vars

\* A subscription with both clocks is in flight at a later attempt, after a
\* session refresh.
C3_Witness ==
    /\ pc = "suback"
    /\ attempt > 2
    /\ sessionToken = "T2"
    /\ lastInitialSeen = "i1"
    /\ lastClkSeen = "c2"
    /\ Has(subscription, "initialClk") /\ subscription.initialClk = "i1"
    /\ Has(subscription, "clk") /\ subscription.clk = "c2"

\* C4: the settlement transaction runs at most once per market id, for any
\* sequence of frames.
C4_SettlesAtMostOnce == \A m \in Markets : settleCount[m] <= 1

\* C5: every observed settlement edge of a market runs the settlement
\* transaction exactly once: the executions equal the edges observed.
C5_SettlesOncePerEdge == \A m \in Markets : settleCount[m] = edgeCount[m]

\* A line of the file of market m: one mc entry, of m, and no top-level id.
SingleMarketLine(l, m) ==
    /\ ~Has(l, "id")
    /\ Has(l, "mc")
    /\ Len(l.mc) = 1
    /\ Has(l.mc[1], "id")
    /\ l.mc[1].id = m

\* C6: every line in the file of market M (and so in its archive) has exactly
\* one mc entry, whose id is M, and no top-level id field.
C6_SingleMarketLines ==
    \A m \in Markets :
        /\ \A i \in 1..Len(plainLines[m]) : SingleMarketLine(plainLines[m][i], m)
        /\ \A i \in 1..Len(bz2Lines[m]) : SingleMarketLine(bz2Lines[m][i], m)

\* One frame with a top-level id and two markets was written to both files.
C6_Witness ==
    /\ nframes = 1
    /\ Len(plainLines["1.A"]) = 1
    /\ Len(plainLines["1.B"]) = 1

\* C7: when a market settles, the line of the settlement frame is in the
\* market's file before compression starts: a complete archive ends with the
\* settlement line.
C7_SettlementLineArchived ==
    \A i \in 1..Len(txns) :
        txns[i].compOK =>
            /\ txns[i].wrote
            /\ Len(txns[i].archive) > 0
            /\ txns[i].archive[Len(txns[i].archive)] = txns[i].line[1]

C9_CatalogueEvicted == \A i \in 1..Len(txns) : ~txns[i].cached

\* A transaction that aborted before the upload, with the catalogue cached.
C9_Witness ==
    \E i \in 1..Len(txns) :
        /\ txns[i].cachedBefore
        /\ ~txns[i].upTried
        /\ ~txns[i].cached

C11_FullBudgetAfterStreamError ==
    rwrResult.kind = "max retries exceeded" => consecFails >= maxRetries

\* C12: once the context is cancelled no new connection attempt is started:
\* no select of Run or runWithReconnect goes on to dial, whether it is the
\* backoff sleep, the wait between two rounds or the top of Run's loop, and
\* the end of stream processing starts no attempt either.
C12_NoDialAfterCancel ==
    [][ctxDone => /\ pc' = "dial" => pc = "dial"
                  /\ attempt' = attempt]_vars

\* The context was cancelled during a backoff sleep after a failed dial and
\* Run returned from there.
C12_Witness ==
    /\ pc = "done"
    /\ runResult = CtxErr
    /\ lastErr = "dial failed"
    /\ attempt = 2
    /\ rwrResult = [kind |-> "error", err |-> CtxErr]

C14_AllHandlesClosed ==
    pc = "done" /\ runResult = CtxErr => \A m \in Markets : handles[m] = 0

\* C15: every authentication message carries the token the stream client
\* holds, and the config and the REST client hold the same token when the
\* attempt starts; a refresh with a successful Login puts the new token in
\* all three at once and fails the attempt with the "session refreshed"
\* error, which is retried and never ends Run.
C15_RefreshedTokenEverywhere ==
    [][pc = "auth" /\ pc' # "auth" =>
          /\ authSession' = sessionToken
          /\ configSessionToken = sessionToken
          /\ restSessionKey = sessionToken
          /\ lastErr' = WrapAuthErr(RefreshedErr) /\ pc' # "hb" =>
                 /\ sessionToken' = "T2"
                 /\ configSessionToken' = "T2"
                 /\ restSessionKey' = "T2"
                 /\ pc' \in {"backoff", "run_backoff"}]_vars

\* The attempt after a refresh sent T2 and was authenticated.
C15_Witness ==
    /\ pc = "hb"
    /\ lastErr = WrapAuthErr(RefreshedErr)
    /\ authSession = "T2"
    /\ configSessionToken = "T2"
    /\ restSessionKey = "T2"

\* C16: a refresh whose Login fails leaves the token of the stream client,
\* of the config and of the REST client as they were and fails the attempt;
\* the three tokens are the same in every state, so no later attempt uses a
\* partially updated token.
C16_FailedRefreshKeepsToken ==
    [][/\ sessionToken' = configSessionToken'
       /\ sessionToken' = restSessionKey'
       /\ sessionToken' # ""
       /\ pc = "auth" /\ lastErr' = WrapAuthErr(RefreshFailedErr)
              /\ pc' \notin {"auth", "hb"} =>
              /\ sessionToken' = sessionToken
              /\ configSessionToken' = configSessionToken
              /\ restSessionKey' = restSessionKey
              /\ pc' \in {"backoff", "run_backoff"}]_vars

\* Login failed at the second attempt and the attempt after it sent the old
\* token again.
C16_Witness ==
    /\ pc = "hb"
    /\ attempt = 3
    /\ lastErr = WrapAuthErr(RefreshFailedErr)
    /\ authSession = "T1"
    /\ sessionToken = "T1"

\* C17: isRetriableError is false exactly for the errors that are
\* context.Canceled or context.DeadlineExceeded, bare or wrapped, and true
\* for every other error, known phrase or not.
C17_RetriableUnlessContext ==
    pc \in {"retriable", "not retriable"} =>
        (pc = "not retriable" <=>
             lastErr[Len(lastErr)] \in {"context.Canceled",
                                        "context.DeadlineExceeded"})

\* A wrapped deadline error was classified as not retriable.
C17_Witness ==
    /\ pc = "not retriable"
    /\ lastErr = <<"authentication failed", "context.DeadlineExceeded">>

IsNonEmpty(x) == x # ""

\* The line an entry of the log wrote keeps the entry's market change.
KeepsData(e) ==
    /\ Has(e.line[1], "mc")
    /\ Len(e.line[1].mc) = 1
    /\ Str(e.line[1].mc[1], "id") = e.m

\* The line of an entry of the log carries no catalogue data.
NotEnriched(e) ==
    Has(e.line[1].mc[1], "marketDefinition") =>
        ~Has(e.line[1].mc[1].marketDefinition, "marketName")

\* C18: a failed catalogue fetch or a failed enrichment drops no data and
\* stops nothing: the entry's line is appended to its market's file, without
\* catalogue data when the enrichment failed or no catalogue is cached, and
\* every entry of the frame with an id is processed.
C18_CatalogueFailureKeepsData ==
    /\ pc = "stream"
    /\ lastFrame.op = "mcm" /\ lastFrame.ct # "HEARTBEAT" =>
           Len(entryLog) = Len(SelectSeq(lastFrame.ids, IsNonEmpty))
    /\ \A i \in 1..Len(entryLog) :
           LET e == entryLog[i] IN
           /\ e.flt # {}
           /\ e.flt \subseteq {"catalogue", "enrich"}
           /\ ~e.stickyErr
           => /\ e.wrote
              /\ e.lenAfter = e.lenBefore + 1
              /\ KeepsData(e)
              /\ "enrich" \in e.flt \/ ~e.cachedAtWrite => NotEnriched(e)

\* The catalogue fetch failed for both entries of a frame and both lines
\* were written without catalogue data.
C18_Witness ==
    /\ Len(entryLog) = 2
    /\ \A i \in 1..2 :
           /\ entryLog[i].flt = {"catalogue"}
           /\ ~entryLog[i].cachedAtWrite
           /\ entryLog[i].wrote
           /\ Has(entryLog[i].line[1].mc[1], "marketDefinition")
    /\ entryLog[1].m # entryLog[2].m

\* C19: a processed mcm frame handles each entry with a non-empty id, in
\* order: it creates the writer if the market has none and appends exactly
\* one line, of that entry, to that market's file; entries without an id are
\* skipped and the files of markets the frame does not name stay as they are.
C19_OneLinePerEntry ==
    [][nframes' = nframes + 1 /\ lastFrame'.op = "mcm"
           /\ lastFrame'.ct # "HEARTBEAT" =>
          LET log == entryLog'
              ids == SelectSeq(lastFrame'.ids, IsNonEmpty)
          IN  /\ Len(log) = Len(ids)
              /\ \A i \in 1..Len(log) :
                     /\ log[i].m = ids[i]
                     /\ log[i].flt \cap {"create", "write"} = {}
                            /\ ~log[i].stickyErr =>
                            /\ log[i].hasWriter
                            /\ log[i].wrote
                            /\ log[i].lenAfter = log[i].lenBefore + 1
                            /\ KeepsData(log[i])
                            /\ ~log[i].hadWriter => log[i].lenBefore = 0
              /\ \A m \in Markets \ {log[i].m : i \in 1..Len(log)} :
                     /\ plainLines'[m] = plainLines[m]
                     /\ (m \in plainEx') = (m \in plainEx)
                     /\ (m \in writers') = (m \in writers)]_vars

\* A frame of an entry without an id and an entry of 1.A, whose writer was
\* created for it: one line in the file of 1.A, none in the file of 1.B.
C19_Witness ==
    /\ nframes = 1
    /\ lastFrame.ids = <<"", "1.A">>
    /\ Len(entryLog) = 1
    /\ ~entryLog[1].hadWriter
    /\ entryLog[1].wrote
    /\ Len(plainLines["1.A"]) = 1
    /\ "1.B" \notin plainEx

\* The frames readMessage does not process: another op than mcm, a
\* heartbeat, an mc that is missing or empty.
SkippedFrame(f) == f.op # "mcm" \/ f.ct = "HEARTBEAT" \/ Len(f.ids) = 0

\* C20: a frame whose op is not mcm, a heartbeat and a frame whose mc is
\* empty or missing change nothing but the clocks: no line, no writer, no
\* status, no catalogue, no settlement.
C20_SkippedFramesChangeNothing ==
    [][nframes' = nframes + 1 /\ SkippedFrame(lastFrame') =>
          /\ UNCHANGED <<marketCatalogues, marketStatuses, writers, files,
                         writerErr, plainEx, plainLines, bz2Ex, bz2Lines, s3,
                         handles, settleCount>>
          /\ entryLog' = <<>>
          /\ txns' = <<>>]_vars

\* Market 1.A is open with one line; a heartbeat that carries CLOSED for it
\* was read after that.
C20_Witness ==
    /\ nframes = 2
    /\ lastFrame.ct = "HEARTBEAT"
    /\ lastFrame.ids = <<"1.A">>
    /\ lastFrame.clk = clk
    /\ marketStatuses["1.A"] = "OPEN"
    /\ Len(plainLines["1.A"]) = 1
    /\ settleCount["1.A"] = 0

\* C21: every settlement transaction, before it compresses, uploads or
\* deletes anything, has removed the market from the writers map and has
\* closed the market's file handle.
C21_Step1ClosesFile ==
    \A i \in 1..Len(txns) :
        /\ ~txns[i].step1Writer
        /\ ~txns[i].step1File
        /\ txns[i].step1Handles = 0

\* The status of an ack: its status, else its statusCode.
AckStatus(a) ==
    IF Str(a, "status") \notin {"", " "} THEN a.status ELSE Str(a, "statusCode")

\* An ack of the authentication: op authentication or status, status SUCCESS
\* in any case of the letters.
GoodAuthAck(a) ==
    /\ Str(a, "op") \in {"authentication", "status"}
    /\ AckStatus(a) \in {"SUCCESS", "success", "Success"}

\* A step of Authenticate's read loop that read a frame.
AuthReadStep == pc = "auth_read" /\ nread' = nread + 1

\* C22 as stated: Authenticate passes over connection and heartbeat frames
\* and decides on the first other frame; it succeeds iff that frame is a good
\* ack; otherwise the attempt fails, its error carries the ack's error
\* message, and nothing more is sent on the connection.
C22_AuthFailsWithAckMessage ==
    [][/\ pc = "backoff" => sent' = sent
       /\ AuthReadStep =>
            IF Str(ack', "op") \in {"connection", "heartbeat"}
            THEN pc' = "auth_read" /\ sent' = sent
            ELSE /\ pc' = "hb_send" <=> GoodAuthAck(ack')
                 /\ ~GoodAuthAck(ack') =>
                      /\ pc' = "backoff"
                      /\ sent' = <<"authentication">>
                      /\ lastErr' \in
                           {"authentication failed: authentication failed: "
                                \o AckErrMsg(ack'),
                            "authentication failed: "
                                \o "session refreshed, retry connection: "
                                \o "authentication failed: "
                                \o AckErrMsg(ack')}]_vars

\* C22: as above, but the error carries the ack's error message (its
\* errorMessage, else its errorCode, else "unknown error") only when the
\* frame is an ack and no session refresh failed: a frame of another op
\* gives an error that names the unexpected op, and an invalid-session ack
\* whose Login call fails gives the error of the failed refresh.
C22_AuthDecidesOnFirstAck ==
    [][/\ pc = "backoff" => sent' = sent
       /\ AuthReadStep =>
            IF Str(ack', "op") \in {"connection", "heartbeat"}
            THEN pc' = "auth_read" /\ sent' = sent
            ELSE /\ pc' = "hb_send" <=> GoodAuthAck(ack')
                 /\ ~GoodAuthAck(ack') =>
                      /\ pc' = "backoff"
                      /\ sent' = <<"authentication">>
                      /\ lastErr' \in
                           IF Str(ack', "op") \notin {"authentication", "status"}
                           THEN {"authentication failed: unexpected op \""
                                     \o Str(ack', "op")
                                     \o "\" (want \"authentication\")"}
                           ELSE IF AckErrMsg(ack') = "NO_SESSION"
                           THEN {"authentication failed: authentication failed: "
                                     \o AckErrMsg(ack'),
                                 "authentication failed: "
                                     \o "session refreshed, retry connection: "
                                     \o "authentication failed: "
                                     \o AckErrMsg(ack'),
                                 "authentication failed: "
                                     \o "failed to refresh session token: "
                                     \o "login failed"}
                           ELSE {"authentication failed: authentication failed: "
                                     \o AckErrMsg(ack')}]_vars

\* A connection frame was passed over, then an authentication ack with
\* status FAILURE and the message "bad key" ended the attempt.
C22_Witness ==
    /\ pc = "backoff"
    /\ nread = 2
    /\ Str(ack, "op") = "authentication"
    /\ Str(ack, "status") = "FAILURE"
    /\ lastErr = "authentication failed: authentication failed: bad key"
    /\ sent = <<"authentication">>

\* An ack of the subscription: op marketSubscription or status.
IsSubscriptionAck(a) == Str(a, "op") \in {"marketSubscription", "status"}

\* C23: waitForSubscriptionAck passes over heartbeats, returns success only
\* on an ack whose status is SUCCESS, and an ack whose status is not SUCCESS
\* makes the subscription fail: the attempt ends as a failed
\* connection establishment that is retried.
C23_FailedAckFailsSubscription ==
    [][pc = "ack_read" /\ nread' = nread + 1 =>
          IF Str(ack', "op") = "heartbeat"
          THEN pc' = "ack_read"
          ELSE /\ pc' = "stream" =>
                    /\ IsSubscriptionAck(ack')
                    /\ AckStatus(ack') \in {"SUCCESS", "success"}
               /\ IsSubscriptionAck(ack')
                      /\ AckStatus(ack') \notin {"SUCCESS", "success"} =>
                    /\ pc' = "backoff"
                    /\ lastErr' # lastErr]_vars

\* Key k is in both objects with one value, or in neither.
SameKey(a, b, k) == Has(a, k) = Has(b, k) /\ (Has(a, k) => a[k] = b[k])

\* The two objects agree on every key outside ks.
SameBut(a, b, ks) ==
    /\ DOMAIN a \ ks = DOMAIN b \ ks
    /\ \A k \in DOMAIN a \ ks : a[k] = b[k]

\* Key k of object b has the value v.
HasValue(b, k, v) == Has(b, k) /\ b[k] = v

\* Runner rin of the stream and what the enrichment made of it.
RunnerEnriched(cat, rin, rout) ==
    IF Has(rin, "id")
       /\ \E j \in 1..Len(cat.runners) : cat.runners[j].selectionId = rin.id
    THEN \E j \in 1..Len(cat.runners) :
            /\ cat.runners[j].selectionId = rin.id
            /\ SameBut(rin, rout, {"name", "sortPriority", "handicap",
                                   "adjustmentFactor"})
            /\ HasValue(rout, "name", cat.runners[j].runnerName)
            /\ HasValue(rout, "sortPriority", cat.runners[j].sortPriority)
            /\ IF cat.runners[j].handicap # 0
               THEN HasValue(rout, "handicap", cat.runners[j].handicap)
               ELSE SameKey(rin, rout, "handicap")
            /\ IF Has(rin, "adjustmentFactor")
               THEN HasValue(rout, "adjustmentFactor", rin.adjustmentFactor)
               ELSE HasValue(rout, "adjustmentFactor", 0)
    ELSE rout = rin

\* Market definition din of the stream and what the enrichment made of it.
DefinitionEnriched(cat, din, dout) ==
    /\ SameBut(din, dout, {"marketName", "eventName", "venue",
                           "eventTypeName", "competitionName", "runners"})
    /\ HasValue(dout, "marketName", cat.marketName)
    /\ IF Has(cat, "event")
       THEN HasValue(dout, "eventName", cat.event.name)
       ELSE SameKey(din, dout, "eventName")
    /\ IF Has(cat, "event") /\ cat.event.venue # ""
       THEN HasValue(dout, "venue", cat.event.venue)
       ELSE SameKey(din, dout, "venue")
    /\ IF Has(cat, "eventType")
       THEN HasValue(dout, "eventTypeName", cat.eventType.name)
       ELSE SameKey(din, dout, "eventTypeName")
    /\ IF Has(cat, "competition")
       THEN HasValue(dout, "competitionName", cat.competition.name)
       ELSE SameKey(din, dout, "competitionName")
    /\ Has(din, "runners") = Has(dout, "runners")
    /\ Has(din, "runners") =>
           /\ Len(dout.runners) = Len(din.runners)
           /\ \A i \in 1..Len(din.runners) :
                  RunnerEnriched(cat, din.runners[i], dout.runners[i])

\* The first mc entry of the payload has a marketDefinition.
HasDefinition(payload) ==
    /\ Has(payload.data, "mc")
    /\ Len(payload.data.mc) > 0
    /\ Has(payload.data.mc[1], "marketDefinition")

\* C24: with a cached catalogue the enrichment sets marketName, eventName,
\* venue (if the catalogue's is not empty), eventTypeName and competitionName
\* (each if the catalogue has the part); a runner whose id is in the
\* catalogue gets name and sortPriority, handicap if it is not zero, and
\* adjustmentFactor 0 if it had none; every other runner and every other
\* field stays as it was.
C24_EnrichmentFields ==
    pc = "returned" /\ fnIn.marketID \in DOMAIN fnIn.catalogues
        /\ HasDefinition(fnIn.payload) =>
        LET din  == fnIn.payload.data
            dout == fnOut.data
        IN  /\ SameBut(din, dout, {"mc"})
            /\ Has(dout, "mc")
            /\ Len(dout.mc) = Len(din.mc)
            /\ SameBut(din.mc[1], dout.mc[1], {"marketDefinition"})
            /\ Has(dout.mc[1], "marketDefinition")
            /\ DefinitionEnriched(fnIn.catalogues[fnIn.marketID],
                                  din.mc[1].marketDefinition,
                                  dout.mc[1].marketDefinition)

\* A catalogue with venue, event type, competition and a runner of handicap
\* 2 enriched a definition of a runner in the catalogue and one not in it.
C24_Witness ==
    /\ pc = "returned"
    /\ fnIn.catalogues =
           ("1.A" :> [marketName |-> "Win", runners |-> <<CatRunner(2)>>,
                      event |-> [name |-> "Race", venue |-> "Track"],
                      eventType |-> [name |-> "Greyhounds"],
                      competition |-> [name |-> "Cup"]])
    /\ HasDefinition(fnIn.payload)
    /\ fnOut.data.mc[1].marketDefinition =
           [status |-> "OPEN", marketName |-> "Win", eventName |-> "Race",
            venue |-> "Track", eventTypeName |-> "Greyhounds",
            competitionName |-> "Cup",
            runners |-> <<[id |-> 1, status |-> "ACTIVE", name |-> "Rex",
                           sortPriority |-> 3, handicap |-> 2,
                           adjustmentFactor |-> 0],
                          [id |-> 2, status |-> "ACTIVE"]>>]

\* C25: enrichMarketData returns the bytes it was given when no catalogue is
\* cached for the market, and also when the first mc entry has no
\* marketDefinition.
C25_UnchangedWithoutCatalogueOrDefinition ==
    pc = "returned"
        /\ (fnIn.marketID \notin DOMAIN fnIn.catalogues
                \/ ~HasDefinition(fnIn.payload)) =>
        fnOut = fnIn.payload

\* A catalogue is cached and an indented payload without marketDefinition
\* came back as it was.
C25_Witness ==
    /\ pc = "returned"
    /\ fnIn.marketID \in DOMAIN fnIn.catalogues
    /\ fnIn.payload.layout = "indented"
    /\ Has(fnIn.payload.data, "mc")
    /\ Len(fnIn.payload.data.mc) = 1
    /\ ~HasDefinition(fnIn.payload)
    /\ fnOut = fnIn.payload

\* C26: the key is <basePath>/PRO/<year>/<month>/<day>/<eventId>/<filename>
\* with forward slashes, basePath being raw_greyhounds_data when none is
\* configured.
C26_ForwardSlashKey ==
    pc = "returned" =>
        fnOut = (IF fnIn.basePath = "" THEN "raw_greyhounds_data"
                 ELSE fnIn.basePath)
                \o "/PRO/" \o fnIn.eventInfo.Year \o "/" \o fnIn.eventInfo.Month
                \o "/" \o fnIn.eventInfo.Day \o "/" \o fnIn.eventInfo.EventID
                \o "/" \o fnIn.filename

\* The paths a sequence names.
Named(paths) == {paths[i] : i \in 1..Len(paths)}

\* C27: CleanupFiles surfaces no error; naming files that do not exist is a
\* no-op; after it none of the named files that could be removed exists and
\* no other file is touched; a second call with the same paths changes
\* nothing.
C27_CleanupIdempotent ==
    pc \in {"returned", "returned twice"} =>
        /\ \A i \in 1..Len(fnOut) : fnOut[i].err = ""
        /\ fnOut[1].fs = fnIn.fs \ (Named(fnIn.files) \ fnIn.locked)
        /\ Named(fnIn.files) \cap fnIn.fs = {} => fnOut[1].fs = fnIn.fs
        /\ pc = "returned twice" => fnOut[2].fs = fnOut[1].fs

\* Of two named paths the first does not exist and the second was removed;
\* the second call found neither.
C27_Witness ==
    /\ pc = "returned twice"
    /\ fnIn.files = <<"1.A", "1.A.bz2">>
    /\ fnIn.fs = {"1.A.bz2", "1.B"}
    /\ fnOut[1].fs = {"1.B"}
    /\ fnOut[2].fs = {"1.B"}

StatusKeys == {m \in Markets : marketStatuses[m] # ""}

\* C29: after every fully processed frame the writers map, the files map
\* and the market status map have the same keys, also after a settlement
\* and for markets seen without a status.
C29_ParallelMaps ==
    nframes > 0 => writers = files /\ files = StatusKeys

\* The lines the entries of the log wrote to the file of market m, in the
\* order of the entries.
RECURSIVE WrittenLines(_, _)
WrittenLines(log, m) ==
    IF log = <<>> THEN <<>>
    ELSE (IF Head(log).m = m /\ Head(log).wrote THEN Head(log).line ELSE <<>>)
         \o WrittenLines(Tail(log), m)

\* s is what is left of t when lines are dropped from its front.
IsSuffix(s, t) ==
    /\ Len(s) <= Len(t)
    /\ \A i \in 1..Len(s) : s[i] = t[Len(t) - Len(s) + i]

\* C30: the lines of a market's file stay in receive order.  A frame that
\* is read handles its mc entries in their order and leaves in the file of
\* every market the lines the file held followed by the lines this frame's
\* entries wrote for the market, in the order of the entries (less a front
\* part when the file was created anew or deleted); every other step, a
\* lost connection and a reconnect included, leaves the files as they are.
C30_ReceiveOrder ==
    [][IF nframes' = nframes + 1
       THEN /\ SkippedFrame(lastFrame') => plainLines' = plainLines
            /\ ~SkippedFrame(lastFrame') =>
                   /\ [i \in 1..Len(entryLog') |-> entryLog'[i].m]
                          = SelectSeq(lastFrame'.ids, IsNonEmpty)
                   /\ \A m \in Markets :
                          IsSuffix(plainLines'[m],
                                   plainLines[m]
                                       \o WrittenLines(entryLog', m))
       ELSE plainLines' = plainLines]_vars

\* The file of 1.A holds three lines: the rc line of the first frame, then,
\* read at the second connection attempt, the lines of a frame with a market
\* definition entry followed by an rc entry.
C30_Witness ==
    /\ nframes = 2
    /\ attempt = 2
    /\ pc = "stream"
    /\ lastFrame.ids = <<"1.A", "1.A">>
    /\ Len(plainLines["1.A"]) = 3
    /\ Has(plainLines["1.A"][1].mc[1], "rc")
    /\ Has(plainLines["1.A"][2].mc[1], "marketDefinition")
    /\ Has(plainLines["1.A"][3].mc[1], "rc")
    /\ plainLines["1.A"][2] = entryLog[1].line[1]
    /\ plainLines["1.A"][3] = entryLog[2].line[1]

\* C31: with a file limit the number of processed files never exceeds it.
C31_FileLimitRespected ==
    FileLimit > 0 => FilesProcessed <= FileLimit

\* The values of a sequence.
Range(seq) == {seq[i] : i \in 1..Len(seq)}

\* processFilesParallel runs and its workers hold no file that is not in
\* the list: the paths taken from filesCh and the paths still in it are the
\* truncated list, each path once and in its order.
EachFileOnce ==
    caller.pc = "wait" =>
        /\ received \o filesCh = FilesToProcess(FileLimit, caller.filePaths)
        /\ \A i \in WorkerIds :
               worker[i].pc \in {"check", "read", "send"} =>
                   /\ worker[i].filePath \in Range(received)
                   /\ \A j \in WorkerIds \ {i} :
                          worker[j].filePath # worker[i].filePath

\* A worker that sends on errorsCh finds room in it.
SendNeverBlocks ==
    \A i \in WorkerIds : worker[i].pc = "send" => Len(errorsCh) < caller.cap

\* processFilesParallel returns after every worker has finished and every
\* file of the truncated list was taken and answered, with nil when no file
\* failed and else with the error one of the files gave.
ReturnsAfterAllWorkers ==
    caller.pc = "wait" /\ caller'.pc = "idle" =>
        /\ \A i \in 1..Workers : worker[i].pc = "done"
        /\ filesCh = <<>>
        /\ received = FilesToProcess(FileLimit, caller.filePaths)
        /\ Len(errorsCh) = Len(received)
        /\ caller'.ret = "" <=> Range(errorsCh) \subseteq {""}
        /\ caller'.ret # "" =>
               /\ caller'.ret \in Range(errorsCh)
               /\ \E f \in Range(received) : caller'.ret = OpenErr(f)

\* C40: processFilesParallel terminates: every file of the truncated list
\* goes to one worker once, no worker blocks on a channel for ever, and the
\* call returns, after all workers have finished, nil when no file failed
\* and else the error of a failed file.
C40_ParallelTerminates ==
    /\ [](EachFileOnce /\ SendNeverBlocks)
    /\ [][ReturnsAfterAllWorkers]_vars
    /\ (caller.pc = "wait") ~> (caller.pc = "idle")

\* Two workers have processed two files, the first of which could not be
\* opened, and processFilesParallel has returned that file's error.
C40_Witness ==
    /\ caller.pc = "idle"
    /\ caller.cap = 2
    /\ Workers = 2
    /\ received = <<"d/1.1", "d/1.2">>
    /\ errorsCh = <<OpenErr("d/1.1"), "">>
    /\ caller.ret = OpenErr("d/1.1")
    /\ \A i \in WorkerIds : worker[i].pc = "done"

\* The connections that are open.
OpenConns == {i \in 1..Len(conns) : conns[i].open}

\* C35: at most one stream connection is open at any time.
C35_OneOpenConnection == Cardinality(OpenConns) <= 1

\* s is the front part of t.
IsPrefix(s, t) == Len(s) <= Len(t) /\ s = SubSeq(t, 1, Len(s))

HandshakeOrder == <<"authentication", "heartbeat", "marketSubscription">>

\* The handshake of every connection follows the fixed order, and what was
\* done on the connection of the running attempt fits the step the attempt
\* is at; a connection is streamed from only after all three messages were
\* written and the subscription was acknowledged.
HandshakeInOrder ==
    /\ \A i \in 1..Len(conns) :
           /\ IsPrefix(conns[i].sent, HandshakeOrder)
           /\ conns[i].streamed =>
                  conns[i].sent = HandshakeOrder /\ conns[i].acked
    /\ pc \in {"auth", "hb", "sub", "stream"} =>
           /\ Len(conns) > 0
           /\ conns[Len(conns)].open
           /\ conns[Len(conns)].sent =
                  SubSeq(HandshakeOrder, 1,
                         CASE pc = "auth" -> 0 [] pc = "hb" -> 1
                           [] pc = "sub" -> 2 [] pc = "stream" -> 3)
           /\ conns[Len(conns)].streamed <=> pc = "stream"

\* A handshake step that fails closes the connection of the attempt and
\* the attempt ends as an establishment failure: lastErr is set and the
\* attempt waits for a retry or, at the last attempt, runWithReconnect
\* returns "max retries exceeded".
FailedStepCloses ==
    pc \in {"auth", "hb", "sub"} /\ pc' \in {"backoff", "run_backoff"} =>
        /\ ~conns'[Len(conns)].open
        /\ ~conns'[Len(conns)].streamed
        /\ Len(conns') = Len(conns)
        /\ lastErr' \in {"authentication failed", "heartbeat request failed",
                         "subscription failed"}
        /\ consecFails' = Min(consecFails + 1, maxRetries)
        /\ pc' = "run_backoff" =>
               attempt = maxRetries
               /\ rwrResult'.kind = "max retries exceeded"

\* A failed dial leaves no connection behind and counts the same way.
FailedDial ==
    pc = "dial" /\ pc' \in {"backoff", "run_backoff"} =>
        /\ Len(conns') = Len(conns)
        /\ lastErr' = "dial failed"
        /\ consecFails' = Min(consecFails + 1, maxRetries)

\* Nothing is written on a closed connection, and it is not opened again.
ClosedStaysSilent ==
    \A i \in 1..Len(conns) :
        ~conns[i].open =>
            /\ conns'[i].sent = conns[i].sent
            /\ ~conns'[i].open
            /\ conns'[i].streamed = conns[i].streamed

\* C32: each attempt dials, authenticates, requests the heartbeat and
\* subscribes in this order and streams only after the subscription was
\* acknowledged; a handshake step that fails closes the attempt's
\* connection, no later step is sent on it, and the attempt is an
\* establishment failure.
C32_HandshakeOrder ==
    /\ []HandshakeInOrder
    /\ [][FailedStepCloses /\ FailedDial /\ ClosedStaysSilent]_vars

\* The first attempt failed at its subscription and the second after its
\* authentication message: both connections are closed with their messages
\* in order, and the third attempt streams.
C32_Witness ==
    /\ Len(conns) = 3
    /\ pc = "stream"
    /\ attempt = 3
    /\ conns[1].sent = HandshakeOrder /\ ~conns[1].open /\ ~conns[1].streamed
    /\ conns[2].sent = <<"authentication">> /\ ~conns[2].open
    /\ conns[3].sent = HandshakeOrder /\ conns[3].open /\ conns[3].streamed

\* The status the mc entry of a logged line carried, "" for none.
EntryStatus(e) ==
    IF Has(e.line[1].mc[1], "marketDefinition")
    THEN Str(e.line[1].mc[1].marketDefinition, "status")
    ELSE ""

\* The statuses that the entries of the log carried for market m, in the
\* order of the entries.
RECURSIVE ObservedStatuses(_, _)
ObservedStatuses(log, m) ==
    IF log = <<>> THEN <<>>
    ELSE (IF Head(log).m = m /\ EntryStatus(Head(log)) # ""
          THEN <<EntryStatus(Head(log))>> ELSE <<>>)
         \o ObservedStatuses(Tail(log), m)

\* A frame that is processed leaves for every market the last status its
\* entries carried for it, and the stored one when they carried none; no
\* other step writes the status map.
StatusFollowsEntries ==
    IF nframes' = nframes + 1 /\ ~SkippedFrame(lastFrame')
    THEN \A m \in Markets :
             LET obs == ObservedStatuses(entryLog', m)
             IN  marketStatuses'[m] =
                     IF obs = <<>> THEN marketStatuses[m]
                     ELSE obs[Len(obs)]
    ELSE marketStatuses' = marketStatuses

\* C33: the status map has an entry for a market exactly when a processed
\* entry carried a status for it, the entry is the status seen last, and an
\* entry without status leaves the map as it is.  The map starts empty and
\* every step keeps it so.
C33_StatusMapTracksLastStatus ==
    /\ [](nframes = 0 => \A m \in Markets : marketStatuses[m] = "")
    /\ [][StatusFollowsEntries]_vars

\* A frame brought 1.B without a status; the next frame closed 1.A and
\* brought an entry of 1.A without status after that.
C33_Witness ==
    /\ nframes = 2
    /\ Len(entryLog) = 2
    /\ entryLog[1].m = "1.A" /\ EntryStatus(entryLog[1]) = "CLOSED"
    /\ entryLog[2].m = "1.A" /\ EntryStatus(entryLog[2]) = ""
    /\ marketStatuses["1.A"] = "CLOSED"
    /\ edgeCount["1.A"] = 1
    /\ marketStatuses["1.B"] = ""
    /\ "1.B" \in writers

\* The entries of the log for market m.
EntriesOf(log, m) == SelectSeq(log, LAMBDA e : e.m = m)

\* An entry that found no writer and created one found the file empty, and
\* the file holds one line once the entry has written.
FreshFileOnCreate ==
    \A i \in 1..Len(entryLog') :
        LET e == entryLog'[i] IN
        ~e.hadWriter /\ e.hasWriter =>
            e.lenBefore = 0 /\ (e.wrote => e.lenAfter = 1)

\* A market that was settled and has no writer gets, with the one entry a
\* frame brings for it, a file that holds this entry's line and nothing of
\* the earlier log.
OnlyNewLineAfterSettlement ==
    \A m \in Markets :
        LET es == EntriesOf(entryLog', m) IN
        /\ settleCount[m] > 0
        /\ m \notin writers
        /\ Len(es) = 1
        /\ es[1].wrote
        /\ settleCount'[m] = settleCount[m]
        => plainLines'[m] = es[1].line

\* The transaction runs for a market only with a settlement edge.
SettlesOnlyOnEdge ==
    \A m \in Markets :
        settleCount'[m] - settleCount[m] <= edgeCount'[m] - edgeCount[m]

\* C34: a frame for a market that was settled, whose writer is gone,
\* re-creates the file <root>/M empty and writes only the new line: the log
\* that was there is not appended to; the settlement transaction runs again
\* for the market only when a new edge to CLOSED is observed.
C34_FreshFileAfterSettlement ==
    [][nframes' = nframes + 1 =>
           /\ FreshFileOnCreate
           /\ OnlyNewLineAfterSettlement
           /\ SettlesOnlyOnEdge]_vars

\* 1.A was settled without an object store, so that its file kept the
\* CLOSED line; the next frame brought an rc entry for 1.A, and the file
\* holds that line alone.
C34_Witness ==
    /\ nframes = 2
    /\ ~storage
    /\ settleCount["1.A"] = 1
    /\ edgeCount["1.A"] = 1
    /\ marketStatuses["1.A"] = "CLOSED"
    /\ "1.A" \in writers
    /\ Len(entryLog) = 1
    /\ ~entryLog[1].hadWriter
    /\ entryLog[1].wrote
    /\ txns = <<>>
    /\ Len(plainLines["1.A"]) = 1
    /\ Has(plainLines["1.A"][1].mc[1], "rc")
    /\ Len(bz2Lines["1.A"]) = 1
    /\ Has(bz2Lines["1.A"][1].mc[1], "marketDefinition")

\* The steps between two frames, a lost connection, the retry delay and
\* the handshake of the next attempt among them, leave the three maps and
\* the files as they are.
MapsSurviveReconnect ==
    nframes' = nframes =>
        UNCHANGED <<writers, files, marketStatuses, plainEx, plainLines,
                    settleCount>>

\* The first entry a frame brings for a market with a writer uses this
\* writer and finds the file with all its lines.
OpenWriterKept ==
    \A m \in writers :
        LET es == EntriesOf(entryLog', m) IN
        Len(es) > 0 =>
            es[1].hadWriter /\ es[1].lenBefore = Len(plainLines[m])

\* A frame whose entries for a market bring no other status than CLOSED,
\* for a market that is stored as CLOSED, runs no settlement transaction.
ClosedReplayIgnored ==
    \A m \in Markets :
        /\ marketStatuses[m] = "CLOSED"
        /\ Range(ObservedStatuses(entryLog', m)) \subseteq {"CLOSED"}
        => /\ settleCount'[m] = settleCount[m]
           /\ \A i \in 1..Len(txns') : txns'[i].m # m

\* C36: the writers, files and status maps of Run survive every reconnect:
\* no reconnect changes them or a file, the frame after it appends to the
\* file of a market with an open writer, and a CLOSED status that is
\* replayed for a market stored as CLOSED settles nothing again.
C36_MapsSurviveReconnect ==
    [][/\ MapsSurviveReconnect
       /\ nframes' = nframes + 1 => OpenWriterKept /\ ClosedReplayIgnored]_vars

\* 1.A was settled at the first attempt; the connection broke, and the
\* second attempt replayed the CLOSED market definition: no transaction.
C36_Witness ==
    /\ nframes = 2
    /\ attempt = 2
    /\ pc = "stream"
    /\ marketStatuses["1.A"] = "CLOSED"
    /\ settleCount["1.A"] = 1
    /\ edgeCount["1.A"] = 1
    /\ Len(entryLog) = 1
    /\ EntryStatus(entryLog[1]) = "CLOSED"
    /\ entryLog[1].wrote
    /\ txns = <<>>

\* The write or the flush of the entry's line failed.
WriteFailed(e) == e.hasWriter /\ ~e.wrote

\* C37: an entry whose line cannot be written ends there: no settlement
\* transaction and no catalogue eviction for it, settlement edge or not,
\* while the status map holds its status; the other entries of the frame
\* are processed and readMessage returns no error.
C37_FailedWriteSkipsSettlement ==
    [][nframes' = nframes + 1 /\ ~SkippedFrame(lastFrame') =>
          /\ \A i \in 1..Len(entryLog') :
                 LET e == entryLog'[i] IN
                 WriteFailed(e) =>
                     /\ e.lenAfter = e.lenBefore
                     /\ \A j \in 1..Len(txns') : txns'[j].m # e.m
                     /\ settleCount'[e.m] = settleCount[e.m]
                     /\ e.cachedAtWrite => e.m \in marketCatalogues'
                     /\ EntryStatus(e) # "" =>
                            marketStatuses'[e.m] =
                                ObservedStatuses(entryLog', e.m)[
                                    Len(ObservedStatuses(entryLog', e.m))]
          /\ [i \in 1..Len(entryLog') |-> entryLog'[i].m]
                 = SelectSeq(lastFrame'.ids, IsNonEmpty)
          /\ pc' = "stream"
          /\ UNCHANGED <<lastErr, rwrResult, runResult>>]_vars

\* The write of the line that closes 1.A failed: the edge was counted and
\* the status stored, nothing was settled and the catalogue stays cached;
\* the entry of 1.B after it was written.
C37_Witness ==
    /\ nframes = 1
    /\ Len(entryLog) = 2
    /\ entryLog[1].m = "1.A"
    /\ WriteFailed(entryLog[1])
    /\ EntryStatus(entryLog[1]) = "CLOSED"
    /\ marketStatuses["1.A"] = "CLOSED"
    /\ edgeCount["1.A"] = 1
    /\ settleCount["1.A"] = 0
    /\ "1.A" \in marketCatalogues
    /\ txns = <<>>
    /\ entryLog[2].m = "1.B"
    /\ entryLog[2].hasWriter

\* The catalogue is asked for exactly when the cache has no entry, and the
\* cache holds one after that unless the call failed.
FetchOnlyOnMiss ==
    \A i \in 1..Len(entryLog') :
        LET e == entryLog'[i] IN
        /\ e.requested <=> ~e.cachedBefore
        /\ e.cachedAtWrite <=> (e.cachedBefore \/ "catalogue" \notin e.flt)

\* The cache an entry finds is the one the market's entry before it left,
\* in this frame or in an earlier one; an entry that was there is gone only
\* after a settlement transaction of the market.
CacheKeptUntilSettlement ==
    \A m \in Markets :
        LET es == EntriesOf(entryLog', m)
            settled == \E j \in 1..Len(txns') : txns'[j].m = m
        IN  IF es = <<>>
            THEN m \in marketCatalogues' <=> m \in marketCatalogues
            ELSE /\ es[1].cachedBefore <=> m \in marketCatalogues
                 /\ \A i \in 1..(Len(es) - 1) :
                        /\ ~es[i].cachedAtWrite => ~es[i + 1].cachedBefore
                        /\ es[i].cachedAtWrite /\ ~es[i + 1].cachedBefore
                               => settled
                 /\ m \in marketCatalogues' => es[Len(es)].cachedAtWrite
                 /\ es[Len(es)].cachedAtWrite /\ m \notin marketCatalogues'
                        => settled

\* C38: listMarketCatalogue is called for a market only when the cache has
\* no entry for it: after a call that succeeded no entry of the market
\* calls again until a settlement has evicted the entry, and after a call
\* that failed every later entry of the market calls again.
C38_CatalogueFetchedOnMiss ==
    [][nframes' = nframes + 1 =>
           IF SkippedFrame(lastFrame')
           THEN marketCatalogues' = marketCatalogues
           ELSE FetchOnlyOnMiss /\ CacheKeptUntilSettlement]_vars

\* The call for 1.A failed in the first frame; in the second frame the
\* first entry of 1.A called again and cached the catalogue, the second
\* entry found it and made no call.
C38_Witness ==
    /\ nframes = 2
    /\ settleCount["1.A"] = 0
    /\ Len(entryLog) = 2
    /\ entryLog[1].m = "1.A" /\ entryLog[2].m = "1.A"
    /\ entryLog[1].hadWriter
    /\ ~entryLog[1].cachedBefore
    /\ entryLog[1].requested
    /\ entryLog[1].cachedAtWrite
    /\ entryLog[2].cachedBefore
    /\ ~entryLog[2].requested
    /\ "1.A" \in marketCatalogues

\* A frame a handshake loop has consumed.
HandshakeFrameRead == nread' = nread + 1

\* C39: a frame read while Authenticate or waitForSubscriptionAck waits for
\* its ack, market data included, never reaches the recorder: no line is
\* written to any file, no writer is opened, the status map and the
\* catalogue cache stay as they are, initialClk and clk are not updated and
\* the frame is not counted as a recorded frame.
C39_HandshakeFramesNotRecorded ==
    [][HandshakeFrameRead =>
           /\ UNCHANGED <<plainLines, bz2Lines, plainEx, bz2Ex, s3>>
           /\ UNCHANGED <<writers, files, writerErr>>
           /\ UNCHANGED <<marketStatuses, marketCatalogues>>
           /\ UNCHANGED <<initialClk, clk>>
           /\ UNCHANGED <<nframes, entryLog, txns, lastFrame>>]_vars

\* waitForSubscriptionAck has passed over a market-data frame that carried
\* clocks and an OPEN market definition, and the recorder has no clock, no
\* status and no line of it.
C39_Witness ==
    /\ pc = "ack_read"
    /\ nread > 0
    /\ ExtractOp(ack) = "mcm"
    /\ Str(ack, "clk") = "c1"
    /\ Has(ack, "mc")
    /\ clk = ""
    /\ initialClk = ""
    /\ marketStatuses["1.A"] = ""
    /\ plainLines["1.A"] = <<>>
====
